---- MODULE Spec2Model ----
(***************************************************************************)
(* Operator controller and region tree of the placement driver.            *)
(*                                                                         *)
(*   server/core/region_tree.go            the region tree                 *)
(*   server/schedule/opt/healthy.go:61-998 the operator controller         *)
(*                                                                         *)
(* Two state machines share this module.  TreeSpec drives the region tree  *)
(* (update, updateStat, remove).  Spec and ClusterSpec drive the operator  *)
(* controller from several threads; their atomic steps are the critical    *)
(* sections of the controller lock and the unlocked steps between them.    *)
(* In Spec time passes; in ClusterSpec regions and stores change.          *)
(***************************************************************************)
EXTENDS Integers, Sequences, FiniteSets, TLC

VARIABLES
    \* ---- region tree (regionTree, region_tree.go:51-57)
    tree,                   \* the btree: a set of region items, one per start key
    totalSize,              \* regionTree.totalSize
    totalWriteBytesRate,    \* regionTree.totalWriteBytesRate
    totalWriteKeysRate      \* regionTree.totalWriteKeysRate

treeVars == <<tree, totalSize, totalWriteBytesRate, totalWriteKeysRate>>

VARIABLES
    \* ---- operator controller (OperatorController, healthy.go:121-134)
    ops,             \* the operator objects created so far, by operator id
    operators,       \* oc.operators: region id -> operator id, NoOp if absent
    wop,             \* oc.wop: the waiting bucket, one FIFO per priority band
    wopStatus,       \* oc.wopStatus.ops: desc -> number of waiting units
    counts,          \* oc.counts: scheduler kind -> number of operators
    opRecords,       \* oc.opRecords: region id -> record of a buried operator
    opNotifierQueue, \* oc.opNotifierQueue: heap of (operator, next push time)
    histories,       \* oc.histories: list of step records, front first
    fastOperators,   \* oc.fastOperators: region id -> fast finished operator
    storeLimit,      \* the limiters of the stores: store -> kind -> limiter
    cluster,         \* the cluster view: regions, stores, options
    now,             \* the wall clock, in seconds
    threads,         \* for each thread: the call it is in and its locals
    sent,            \* the command the last step handed to the heartbeat streams
    lastCall         \* the last admission call that returned, and its result

ctlVars == <<ops, operators, wop, wopStatus, counts, opRecords, opNotifierQueue,
             histories, fastOperators, storeLimit, cluster, now, threads, sent,
             lastCall>>

VARIABLES
    \* ---- the controller lock (the sync.RWMutex of OperatorController)
    mutex,           \* who holds the lock: the writer and the readers
    locking          \* for each thread: the method it is in, and what it
                     \* still does with the lock before the method returns

lockVars == <<mutex, locking>>

vars == <<treeVars, ctlVars, lockVars>>

(***************************************************************************)
(* Bounds of the region tree model.                                        *)
(***************************************************************************)
MaxKey == 3          \* keys are 0..MaxKey; 0 is the empty key ""
MaxTreeId == 2       \* region ids used by the tree's callers
MaxSize == 2         \* approximate sizes of the regions passed in
MaxDrift == 1        \* totalSize is followed while it is within MaxDrift of the true sum

(***************************************************************************)
(* Keys.  bytes.Compare on byte strings is a total order with "" least; a  *)
(* key is modelled by its rank, so "" is 0.  As an END key "" means        *)
(* +infinity (region_tree.go:44, 93).                                      *)
(***************************************************************************)
Keys == 0..MaxKey

\* The region objects the callers of the tree pass in: a valid key range
\* (start below end, or an empty end key), an id, a size and write rates.
\* The rates are tied to the size to keep the input set small: a region of
\* size s writes 2*s bytes/s and s keys/s.
RegionInfo(id, start, end, size) ==
    [id |-> id, start |-> start, end |-> end, size |-> size,
     writeBytes |-> 2 * size, writeKeys |-> size]

Regions ==
    { RegionInfo(id, s, e, z) : id \in 1..MaxTreeId, s \in Keys,
                                e \in Keys, z \in 1..MaxSize }

ValidRegions == { r \in Regions : r.end = 0 \/ r.start < r.end }

\* "no item": the nil *regionItem
NilItem == [id |-> 0, start |-> 0, end |-> 0, size |-> 0,
            writeBytes |-> 0, writeKeys |-> 0]

\* regionItem.Less: order by start key
Less(a, b) == a.start < b.start

\* regionItem.Contains
Contains(item, key) ==
    key >= item.start /\ (item.end = 0 \/ key < item.end)

\* regionTree.length
length(t) == Cardinality(t)

\* btree.DescendLessOrEqual(pivot, f) with f stopping at the first item: the
\* greatest item that is not greater than the pivot, or NilItem.
DescendFirst(t, pivot) ==
    LET le == { e \in t : ~Less(pivot, e) }
    IN  IF le = {} THEN NilItem
        ELSE CHOOSE e \in le : \A o \in le : ~Less(e, o)

\* find without its Contains test: the item at or before the start key is
\* returned even when the key lies behind its end.
findNoContains(t, region) == DescendFirst(t, region)

\* regionTree.find
find(t, region) ==
    LET result == DescendFirst(t, region)
    IN  IF result = NilItem \/ ~Contains(result, region.start)
        THEN NilItem
        ELSE result

\* The items of t that are not less than the pivot, in ascending order
\* (the order in which btree.AscendGreaterOrEqual visits them).
RECURSIVE AscendSeq(_, _)
AscendSeq(t, pivot) ==
    LET ge == { e \in t : ~Less(e, pivot) }
    IN  IF ge = {} THEN <<>>
        ELSE LET first == CHOOSE e \in ge : \A o \in ge : ~Less(o, e)
             IN  <<first>> \o AscendSeq(ge \ {first}, pivot)

\* The visitor of getOverlaps: stop at the first item whose start key is
\* not below the (non-empty) end key of the region.
RECURSIVE TakeOverlaps(_, _)
TakeOverlaps(items, region) ==
    IF items = <<>> THEN <<>>
    ELSE IF region.end # 0 /\ region.end <= Head(items).start THEN <<>>
    ELSE <<Head(items)>> \o TakeOverlaps(Tail(items), region)

\* getOverlaps without its find: the scan starts at the region's own start
\* key and misses the item that begins before it and reaches into it.
getOverlapsFromStart(t, region) ==
    TakeOverlaps(AscendSeq(t, region), region)

\* regionTree.getOverlaps
getOverlaps(t, region) ==
    LET found == find(t, region)
        result == IF found = NilItem THEN region ELSE found
    IN  TakeOverlaps(AscendSeq(t, result), region)

Range(s) == { s[i] : i \in DOMAIN s }

RECURSIVE SumSeq(_, _)
SumSeq(s, field) ==
    IF s = <<>> THEN 0 ELSE Head(s)[field] + SumSeq(Tail(s), field)

\* btree.ReplaceOrInsert: the item replaces the item with an equal key
ReplaceOrInsert(t, item) ==
    { e \in t : Less(e, item) \/ Less(item, e) } \cup {item}

\* btree.Delete: deletes the item with an equal key
Delete(t, item) == { e \in t : Less(e, item) \/ Less(item, e) }

RECURSIVE DeleteAll(_, _)
DeleteAll(t, items) ==
    IF items = <<>> THEN t ELSE DeleteAll(Delete(t, Head(items)), Tail(items))

\* A tree with its statistics, as the methods below transform it.
TreeState == [tree |-> tree, totalSize |-> totalSize,
              totalWriteBytesRate |-> totalWriteBytesRate,
              totalWriteKeysRate |-> totalWriteKeysRate]

\* regionTree.update
update(T, region) ==
    LET overlaps == getOverlaps(T.tree, region)
    IN  [tree |-> ReplaceOrInsert(DeleteAll(T.tree, overlaps), region),
         totalSize |-> T.totalSize + region.size - SumSeq(overlaps, "size"),
         totalWriteBytesRate |->
             T.totalWriteBytesRate + region.writeBytes - SumSeq(overlaps, "writeBytes"),
         totalWriteKeysRate |->
             T.totalWriteKeysRate + region.writeKeys - SumSeq(overlaps, "writeKeys")]

\* regionTree.updateStat, called when the region of a tree item is replaced
\* in place by a region with the same id and key range.
updateStat(T, origin, region) ==
    [tree |-> (T.tree \ {origin}) \cup {region},
     totalSize |-> T.totalSize + region.size - origin.size,
     totalWriteBytesRate |->
         T.totalWriteBytesRate + region.writeBytes - origin.writeBytes,
     totalWriteKeysRate |->
         T.totalWriteKeysRate + region.writeKeys - origin.writeKeys]

\* remove without the comparison of the ids: whatever entry holds the start
\* key is deleted
removeAnyId(T, region) ==
    LET result == find(T.tree, region)
    IN  IF result = NilItem THEN T
        ELSE [tree |-> Delete(T.tree, result),
              totalSize |-> T.totalSize - region.size,
              totalWriteBytesRate |-> T.totalWriteBytesRate - region.writeBytes,
              totalWriteKeysRate |-> T.totalWriteKeysRate - region.writeKeys]

\* regionTree.remove
remove(T, region) ==
    IF length(T.tree) = 0 THEN T
    ELSE LET result == find(T.tree, region)
         IN  IF result = NilItem \/ result.id # region.id THEN T
             ELSE [tree |-> Delete(T.tree, result),
                   totalSize |-> T.totalSize - region.size,
                   totalWriteBytesRate |-> T.totalWriteBytesRate - region.writeBytes,
                   totalWriteKeysRate |-> T.totalWriteKeysRate - region.writeKeys]

\* regionTree.TotalSize
TotalSize == IF length(tree) = 0 THEN 0 ELSE totalSize

RECURSIVE SumSet(_, _)
SumSet(S, field) ==
    IF S = {} THEN 0
    ELSE LET e == CHOOSE x \in S : TRUE IN e[field] + SumSet(S \ {e}, field)

InBounds(T) ==
    T.totalSize - SumSet(T.tree, "size") \in -MaxDrift..MaxDrift

SetTree(T) ==
    /\ InBounds(T)
    /\ tree' = T.tree
    /\ totalSize' = T.totalSize
    /\ totalWriteBytesRate' = T.totalWriteBytesRate
    /\ totalWriteKeysRate' = T.totalWriteKeysRate
    /\ UNCHANGED <<ctlVars, lockVars>>

TreeInit ==
    /\ tree = {}
    /\ totalSize = 0
    /\ totalWriteBytesRate = 0
    /\ totalWriteKeysRate = 0

\* t.update(&regionItem{region})
Update ==
    \E region \in ValidRegions :
        \E T \in {update(TreeState, region)} : SetTree(T)

\* the caller replaces item.region in place and calls t.updateStat(origin, region)
UpdateStat ==
    \E origin \in tree, z \in 1..MaxSize :
        LET region == RegionInfo(origin.id, origin.start, origin.end, z)
        IN  SetTree(updateStat(TreeState, origin, region))

\* t.remove(region)
Remove ==
    \E region \in ValidRegions :
        \E T \in {remove(TreeState, region)} : SetTree(T)

TreeNext == Update \/ UpdateStat \/ Remove


(***************************************************************************)
(* The operator controller.  Bounds of its model.                          *)
(***************************************************************************)
MaxOps == 2          \* operators created in one behaviour
MaxRegion == 2       \* region ids 1..MaxRegion; region r adds its peer on store r
MaxCallOps == 2      \* operators passed to one AddOperator / AddWaitingOperator
MaxTicks == 1        \* clock advances in one behaviour
MaxChanges == 1      \* changes of the cluster made by others in one behaviour
MaxWaiting == 3      \* largest configured scheduler-max-waiting-operator
MaxInFlight == 1     \* threads inside a call of several steps at one time

(***************************************************************************)
(* Program constants, in seconds.                                          *)
(***************************************************************************)
historyKeepTime == 300
slowNotifyInterval == 5
fastNotifyInterval == 2
FastOperatorFinishTime == 10
operatorStatusRemainTime == 600

\* Not in the sources at hand: the operator's expiration window and the
\* deadline of its timeout, and the capacity of a store limiter.
OperatorExpireTime == 3
OperatorWaitTime == 10
LimiterCapacity == 1

\* The clock advances in steps of this many seconds.
TickSeconds == 700

RegionIds == 1..MaxRegion
StoreIds == 1..MaxRegion
NoOp == 0

\* core.PriorityLevel, low to high; the waiting bucket has one band for each
Priorities == 0..3
InputPriorities == {1, 2}

\* operator.OpStatus
CREATED == "CREATED"
STARTED == "STARTED"
SUCCESS == "SUCCESS"
CANCELED == "CANCELED"
REPLACED == "REPLACED"
EXPIRED == "EXPIRED"
TIMEOUT == "TIMEOUT"

\* operator.IsEndStatus
IsEndStatus(st) == st \in {SUCCESS, CANCELED, REPLACED, EXPIRED, TIMEOUT}

\* storelimit.TypeNameValue
LimitTypes == {"add-peer", "remove-peer"}
NoLimiter == [rate |-> 0, available |-> 0]

\* The sources of a dispatched region.
DispatchFromHeartBeat == "heartbeat"
DispatchFromNotifierQueue == "active push"
DispatchFromCreate == "create"

(***************************************************************************)
(* Operators.  Two shapes are created by the schedulers of the model:      *)
(*   "region": one step AddPeer{ToStore: the region's id}, kind OpRegion   *)
(*   "merge" : one step MergeRegion{IsPassive}, kind OpMerge               *)
(* and "leader": one step TransferLeader, kind OpLeader.                   *)
(***************************************************************************)
OpShapes == {"region", "merge", "leader"}

NewOperator(shape, region, priority, passive, epoch, t) ==
    [shape |-> shape, region |-> region, priority |-> priority,
     passive |-> passive, epoch |-> epoch, status |-> CREATED,
     step |-> 0, create |-> t, start |-> 0, finish |-> 0, applied |-> FALSE,
     displaced |-> NoOp, partner |-> NoOp]

\* Operator.Desc, Operator.Kind, Operator.SchedulerKind
Desc(op) == op.shape
IsMerge(op) == op.shape = "merge"
SchedulerKind(op) == op.shape

\* The steps of an operator: each shape has one step.
StepOf(op) ==
    CASE op.shape = "region" -> [type |-> "AddPeer", ToStore |-> op.region]
      [] op.shape = "merge"  -> [type |-> "MergeRegion", IsPassive |-> op.passive]
      [] op.shape = "leader" -> [type |-> "TransferLeader", ToStore |-> op.region]
NilStep == [type |-> "nil"]
LenSteps(op) == 1

\* OpStep.IsFinish(region): the region has applied the step
IsFinish(op) == op.applied

\* Operator.ConfVerChanged(region): the conf_ver units the region has
\* consumed from the plan of the operator
ConfVerChanged(op) == IF op.shape = "region" /\ op.applied THEN 1 ELSE 0

\* Operator.Start
Start(op, t) ==
    IF op.status = CREATED
    THEN [ok |-> TRUE, op |-> [op EXCEPT !.status = STARTED, !.start = t]]
    ELSE [ok |-> FALSE, op |-> op]

\* Operator.Cancel
Cancel(op) ==
    IF op.status \in {CREATED, STARTED}
    THEN [ok |-> TRUE, op |-> [op EXCEPT !.status = CANCELED]]
    ELSE [ok |-> FALSE, op |-> op]

\* Operator.Replace
Replace(op) ==
    IF op.status = STARTED
    THEN [ok |-> TRUE, op |-> [op EXCEPT !.status = REPLACED]]
    ELSE [ok |-> FALSE, op |-> op]

\* Operator.CheckExpired: an operator that sat in CREATED longer than the
\* expiration window becomes EXPIRED
CheckExpired(op, t) ==
    LET o2 == IF op.status = CREATED /\ t - op.create > OperatorExpireTime
              THEN [op EXCEPT !.status = EXPIRED] ELSE op
    IN  [ok |-> o2.status = EXPIRED, op |-> o2]

\* Operator.CheckTimeout
CheckTimeout(op, t) ==
    IF op.status = STARTED /\ t - op.start > OperatorWaitTime
    THEN [op EXCEPT !.status = TIMEOUT] ELSE op

\* Operator.Check(region): the step to execute, NilStep when there is none
Check(op, t) ==
    IF op.status # STARTED THEN [step |-> NilStep, op |-> op]
    ELSE IF op.step < LenSteps(op)
         THEN IF IsFinish(op)
              THEN [step |-> NilStep,
                    op |-> [op EXCEPT !.step = @ + 1, !.finish = t,
                                      !.status = SUCCESS]]
              ELSE [step |-> StepOf(op), op |-> CheckTimeout(op, t)]
         ELSE [step |-> NilStep, op |-> op]


(***************************************************************************)
(* The cluster view (opt.Cluster).                                         *)
(***************************************************************************)
\* cluster.GetRegion(id): the region's entry; exists = FALSE stands for nil
GetRegion(id) == cluster.regions[id]

\* cluster.GetStore(id) != nil
HasStore(id) == cluster.stores[id]

\* cluster.GetOpts().GetSchedulerMaxWaitingOperator()
GetSchedulerMaxWaitingOperator == cluster.maxWaiting

\* cluster.GetOpts().GetStoreLimitByType(store, type) / StoreBalanceBaseTime
RatePerSec == cluster.storeLimitRate

(***************************************************************************)
(* The controller with everything its methods change, as one record; the   *)
(* methods below map such a record to the record after the call.  taken    *)
(* is bookkeeping of the model: the tokens taken from the limiters during  *)
(* the current call.  So are two fields of an operator: displaced, the     *)
(* operator that addOperatorLocked removed from the map to install it, and *)
(* partner, the other half of the merge pair it was put into the waiting   *)
(* bucket with.                                                            *)
(***************************************************************************)
NoMsg == [region |-> 0, type |-> "", source |-> ""]

OC == [ops |-> ops, operators |-> operators, wop |-> wop,
       wopStatus |-> wopStatus, counts |-> counts, opRecords |-> opRecords,
       queue |-> opNotifierQueue, histories |-> histories,
       fastOperators |-> fastOperators, storeLimit |-> storeLimit,
       sent |-> NoMsg, taken |-> 0]

NoRecord == [op |-> NoOp, status |-> "", time |-> 0]

\* OperatorRecords.Put
RecordsPut(s, o) ==
    [s EXCEPT !.opRecords[s.ops[o].region] =
                  [op |-> o, status |-> s.ops[o].status, time |-> now]]

\* OperatorRecords.Get: the ttl cache keeps an entry for operatorStatusRemainTime
RecordsGet(records, id, t) ==
    IF records[id].op # NoOp /\ t - records[id].time <= operatorStatusRemainTime
    THEN records[id] ELSE NoRecord

\* updateCounts
updateCounts(s) ==
    [s EXCEPT !.counts =
        [k \in OpShapes |->
            Cardinality({ r \in RegionIds :
                            s.operators[r] # NoOp
                            /\ SchedulerKind(s.ops[s.operators[r]]) = k })]]

\* buryOperator that cancels whatever the status of the operator is
buryOperatorAlwaysCancel(s, o) ==
    RecordsPut([s EXCEPT !.ops[o].status = CANCELED], o)

\* buryOperator
buryOperator(s, o) ==
    LET st == s.ops[o].status
        s1 == IF ~IsEndStatus(st)
              THEN [s EXCEPT !.ops[o] = Cancel(s.ops[o]).op] ELSE s
    IN  RecordsPut(s1, o)

\* op.Cancel(); oc.buryOperator(op)
\* a burial that records the operator in the status it arrives in
buryUnchecked(s, o) == RecordsPut(s, o)

cancelAndBury(s, o) ==
    buryOperator([s EXCEPT !.ops[o] = Cancel(s.ops[o]).op], o)

\* removeOperatorLocked without the comparison with the map: the region of
\* the operator loses whatever operator it has
removeOperatorLockedAny(s, o) ==
    LET regionID == s.ops[o].region
    IN  IF s.operators[regionID] # NoOp
        THEN [ok |-> TRUE,
              s |-> updateCounts([s EXCEPT !.operators[regionID] = NoOp])]
        ELSE [ok |-> FALSE, s |-> s]

\* removeOperatorLocked
removeOperatorLocked(s, o) ==
    LET regionID == s.ops[o].region
    IN  IF s.operators[regionID] = o
        THEN [ok |-> TRUE,
              s |-> updateCounts([s EXCEPT !.operators[regionID] = NoOp])]
        ELSE [ok |-> FALSE, s |-> s]

\* isHigherPriorityOperator
isHigherPriorityOperator(new, old) == new.priority > old.priority

\* The first loop of checkAddOperator, for one operator: TRUE if it passes.
checkAddOne(s, o) ==
    LET op == s.ops[o]
        region == GetRegion(op.region)
        old == s.operators[op.region]
    IN  /\ region.exists
        /\ ~(region.version # op.epoch.version \/ region.confVer # op.epoch.confVer)
        /\ ~(old # NoOp /\ ~isHigherPriorityOperator(op, s.ops[old]))
        /\ ~(op.status # CREATED)
        /\ ~(s.wopStatus[Desc(op)] >= GetSchedulerMaxWaitingOperator)

\* checkAddOperator(ops...): the result and the controller afterwards
\* (CheckExpired moves an expired operator to EXPIRED)
checkAddOperator(s, os) ==
    IF \E i \in DOMAIN os : ~checkAddOne(s, os[i])
    THEN [ok |-> FALSE, s |-> s]
    ELSE LET expired == \E i \in DOMAIN os : CheckExpired(s.ops[os[i]], now).ok
             checked == [o \in DOMAIN s.ops |->
                            IF o \in Range(os)
                            THEN CheckExpired(s.ops[o], now).op
                            ELSE s.ops[o]]
         IN  [ok |-> ~expired, s |-> [s EXCEPT !.ops = checked]]

\* Operator.TotalInfluence: the step cost of the operator on a store's
\* limiter of a type (an AddPeer step costs one region on its target store)
StepCost(op, store, type) ==
    IF op.shape = "region" /\ op.region = store /\ type = "add-peer"
       /\ GetRegion(op.region).exists
    THEN 1 ELSE 0

\* NewTotalOpInfluence(ops).GetStoreInfluence(store).GetStepCost(type)
RECURSIVE TotalStepCost(_, _, _, _)
TotalStepCost(s, os, store, type) ==
    IF os = <<>> THEN 0
    ELSE StepCost(s.ops[Head(os)], store, type)
         + TotalStepCost(s, Tail(os), store, type)

\* the keys of NewTotalOpInfluence(ops).StoresInfluence
InfluencedStores(s, os) ==
    { st \in StoreIds : \E ty \in LimitTypes : TotalStepCost(s, os, st, ty) > 0 }

\* getOrCreateStoreLimit: the limiter (NoLimiter for nil) and the limiters
\* afterwards; ResetStoreLimit installs a new limiter with a full bucket
getOrCreateStoreLimit(s, storeID, type) ==
    IF ~HasStore(storeID) THEN [limiter |-> NoLimiter, s |-> s]
    ELSE LET cur == s.storeLimit[storeID][type]
             fresh == [rate |-> RatePerSec, available |-> LimiterCapacity]
             lim == IF cur = NoLimiter \/ cur.rate # RatePerSec THEN fresh ELSE cur
         IN  [limiter |-> lim, s |-> [s EXCEPT !.storeLimit[storeID][type] = lim]]

\* exceedStoreLimitLocked: the stores of the influence are visited in the
\* order of a Go map, which is any order; the set of possible outcomes.
RECURSIVE exceedStoreLimitLocked(_, _, _)
exceedStoreLimitLocked(s, os, stores) ==
    IF stores = {} THEN {[exceed |-> FALSE, s |-> s]}
    ELSE UNION {
        LET cost == TotalStepCost(s, os, st, "add-peer")
            got == getOrCreateStoreLimit(s, st, "add-peer")
        IN  IF cost = 0 THEN exceedStoreLimitLocked(s, os, stores \ {st})
            ELSE IF got.limiter = NoLimiter THEN {[exceed |-> FALSE, s |-> s]}
            ELSE IF got.limiter.available < cost THEN {[exceed |-> TRUE, s |-> got.s]}
            ELSE exceedStoreLimitLocked(got.s, os, stores \ {st})
        : st \in stores }

\* StoreLimit.Take
Take(limiter, n) ==
    IF limiter.available >= n
    THEN [limiter EXCEPT !.available = @ - n] ELSE limiter

\* getNextPushOperatorTime with notify intervals of zero
getNextPushOperatorTimeNow(step, t) == t

\* getNextPushOperatorTime
getNextPushOperatorTime(step, t) ==
    IF step.type \in {"TransferLeader", "PromoteLearner", "DemoteFollower",
                      "ChangePeerV2Enter", "ChangePeerV2Leave"}
    THEN t + fastNotifyInterval
    ELSE t + slowNotifyInterval

\* SendScheduleCommand: the message handed to hbStreams.SendMsg, if any.
\* A passive MergeRegion step sends nothing.
SendScheduleCommand(s, regionID, step, source) ==
    IF step.type = "MergeRegion" /\ step.IsPassive THEN s
    ELSE IF step.type \in {"AddPeer", "MergeRegion", "TransferLeader"}
         THEN [s EXCEPT !.sent = [region |-> regionID, type |-> step.type,
                                  source |-> source]]
         ELSE s

\* The charge of the store limiters in addOperatorLocked (lines 524-543):
\* FALSE with the limiters untouched when a store of the influence is gone.
chargeStoreLimit(s, o) ==
    LET op == s.ops[o]
        stores == InfluencedStores(s, <<o>>)
    IN  IF \E st \in stores : ~HasStore(st) THEN [ok |-> FALSE, s |-> s]
        ELSE [ok |-> TRUE,
              s |-> [s EXCEPT
                  !.storeLimit = [st \in StoreIds |-> [ty \in LimitTypes |->
                      IF st \in stores /\ @[st][ty] # NoLimiter
                         /\ StepCost(op, st, ty) # 0
                      THEN Take(@[st][ty], StepCost(op, st, ty))
                      ELSE @[st][ty]]],
                  !.taken = @ + Cardinality({ <<st, ty>> \in stores \X LimitTypes :
                                  s.storeLimit[st][ty] # NoLimiter
                                  /\ StepCost(op, st, ty) # 0 })]]

\* addOperatorLocked
addOperatorLocked(s, o) ==
    LET regionID == s.ops[o].region
        old == s.operators[regionID]
        s1 == IF old # NoOp
              THEN LET r == removeOperatorLocked(s, old).s
                       r2 == [r EXCEPT !.ops[old] = Replace(r.ops[old]).op]
                   IN  buryOperator(r2, old)
              ELSE s
        started == Start(s1.ops[o], now)
    IN  IF ~started.ok THEN [ok |-> FALSE, s |-> s1]
        ELSE LET s2 == [s1 EXCEPT !.ops[o] = [started.op EXCEPT !.displaced = old],
                                  !.operators[regionID] = o]
                 charged == chargeStoreLimit(s2, o)
             IN  IF ~charged.ok THEN [ok |-> FALSE, s |-> charged.s]
                 ELSE LET s3 == updateCounts(charged.s)
                          chk == IF GetRegion(regionID).exists
                                 THEN Check(s3.ops[o], now)
                                 ELSE [step |-> NilStep, op |-> s3.ops[o]]
                          s4 == [s3 EXCEPT !.ops[o] = chk.op]
                          s5 == IF chk.step # NilStep
                                THEN SendScheduleCommand(s4, regionID, chk.step,
                                                         DispatchFromCreate)
                                ELSE s4
                      IN  [ok |-> TRUE,
                           s |-> [s5 EXCEPT !.queue = @ \cup
                               {[op |-> o,
                                 time |-> getNextPushOperatorTime(chk.step, now)]}]]


\* WaitingOperator.PutOperator: append to the band of the operator's priority
PutOperator(s, o) ==
    [s EXCEPT !.wop[s.ops[o].priority] = Append(@, o)]

RECURSIVE cancelAll(_, _)
cancelAll(s, os) ==
    IF os = <<>> THEN s ELSE cancelAll(cancelAndBury(s, Head(os)), Tail(os))

\* for _, op := range ops { if !oc.addOperatorLocked(op) { ... } }
RECURSIVE addAll(_, _)
addAll(s, os) ==
    IF os = <<>> THEN [ok |-> TRUE, s |-> s]
    ELSE LET r == addOperatorLocked(s, Head(os))
         IN  IF ~r.ok THEN r ELSE addAll(r.s, Tail(os))

\* The locked part of AddWaitingOperator (lines 325-372), from input i on:
\* the controller afterwards, the count returned, and whether the call goes
\* on to PromoteWaitingOperator.
RECURSIVE addWaiting(_, _, _, _)

\* AddWaitingOperator without line 365: the second operator of a merge is
\* counted but not put into the waiting bucket.
addWaitingFirstOnly(s, os, i, added) ==
    IF i > Len(os) THEN [s |-> s, added |-> added, promote |-> TRUE]
    ELSE LET o == os[i]
             isMerge == IsMerge(s.ops[o])
         IN  IF isMerge /\ i + 1 > Len(os)
             THEN [s |-> s, added |-> added, promote |-> FALSE]
             ELSE IF isMerge /\ ~IsMerge(s.ops[os[i + 1]])
             THEN [s |-> s, added |-> added, promote |-> FALSE]
             ELSE LET chk == checkAddOperator(s, <<o>>)
                  IN  IF ~chk.ok
                      THEN [s |-> IF isMerge
                                  THEN cancelAll(chk.s, <<o, os[i + 1]>>)
                                  ELSE cancelAll(chk.s, <<o>>),
                            added |-> added, promote |-> FALSE]
                      ELSE LET s1 == PutOperator(chk.s, o)
                               s2 == IF isMerge
                                     THEN [s1 EXCEPT
                                              !.ops[o].partner = os[i + 1],
                                              !.ops[os[i + 1]].partner = o]
                                     ELSE s1
                               s3 == [s2 EXCEPT !.wopStatus[Desc(s.ops[o])] = @ + 1]
                           IN  addWaiting(s3, os, IF isMerge THEN i + 2 ELSE i + 1,
                                          IF isMerge THEN added + 2 ELSE added + 1)

\* AddWaitingOperator that counts each operator of a merge pair as a
\* waiting unit.
addWaitingCountBoth(s, os, i, added) ==
    IF i > Len(os) THEN [s |-> s, added |-> added, promote |-> TRUE]
    ELSE LET o == os[i]
             isMerge == IsMerge(s.ops[o])
         IN  IF isMerge /\ i + 1 > Len(os)
             THEN [s |-> s, added |-> added, promote |-> FALSE]
             ELSE IF isMerge /\ ~IsMerge(s.ops[os[i + 1]])
             THEN [s |-> s, added |-> added, promote |-> FALSE]
             ELSE LET chk == checkAddOperator(s, <<o>>)
                  IN  IF ~chk.ok
                      THEN [s |-> IF isMerge
                                  THEN cancelAll(chk.s, <<o, os[i + 1]>>)
                                  ELSE cancelAll(chk.s, <<o>>),
                            added |-> added, promote |-> FALSE]
                      ELSE LET s1 == PutOperator(chk.s, o)
                               s2 == IF isMerge
                                     THEN [PutOperator(s1, os[i + 1]) EXCEPT
                                              !.ops[o].partner = os[i + 1],
                                              !.ops[os[i + 1]].partner = o]
                                     ELSE s1
                               s3 == [s2 EXCEPT !.wopStatus[Desc(s.ops[o])] =
                                        IF isMerge THEN @ + 2 ELSE @ + 1]
                           IN  addWaiting(s3, os, IF isMerge THEN i + 2 ELSE i + 1,
                                          IF isMerge THEN added + 2 ELSE added + 1)

addWaiting(s, os, i, added) ==
    IF i > Len(os) THEN [s |-> s, added |-> added, promote |-> TRUE]
    ELSE LET o == os[i]
             isMerge == IsMerge(s.ops[o])
         IN  IF isMerge /\ i + 1 > Len(os)
             THEN [s |-> s, added |-> added, promote |-> FALSE]
             ELSE IF isMerge /\ ~IsMerge(s.ops[os[i + 1]])
             THEN [s |-> s, added |-> added, promote |-> FALSE]
             ELSE LET chk == checkAddOperator(s, <<o>>)
                  IN  IF ~chk.ok
                      THEN [s |-> IF isMerge
                                  THEN cancelAll(chk.s, <<o, os[i + 1]>>)
                                  ELSE cancelAll(chk.s, <<o>>),
                            added |-> added, promote |-> FALSE]
                      ELSE LET s1 == PutOperator(chk.s, o)
                               s2 == IF isMerge
                                     THEN [PutOperator(s1, os[i + 1]) EXCEPT
                                              !.ops[o].partner = os[i + 1],
                                              !.ops[os[i + 1]].partner = o]
                                     ELSE s1
                               s3 == [s2 EXCEPT !.wopStatus[Desc(s.ops[o])] = @ + 1]
                           IN  addWaiting(s3, os, IF isMerge THEN i + 2 ELSE i + 1,
                                          IF isMerge THEN added + 2 ELSE added + 1)

\* PromoteWaitingOperator: WaitingOperator.GetOperator draws a band at
\* random and hands out its first operator, or its first two when that one
\* is a merge operator; the set of possible outcomes.
\* PromoteWaitingOperator that forgets the counter of the units it rejects
RECURSIVE PromoteWaitingOperatorKeepCount(_)
PromoteWaitingOperatorKeepCount(s) ==
    LET bands == { b \in Priorities : s.wop[b] # <<>> }
    IN  IF bands = {} THEN {s}
        ELSE UNION {
            LET n == IF IsMerge(s.ops[Head(s.wop[b])]) THEN 2 ELSE 1
                unit == SubSeq(s.wop[b], 1, n)
                desc == Desc(s.ops[unit[1]])
                s1 == [s EXCEPT !.wop[b] = SubSeq(@, n + 1, Len(@))]
            IN  UNION {
                    LET chk == IF ex.exceed THEN [ok |-> FALSE, s |-> ex.s]
                               ELSE checkAddOperator(ex.s, unit)
                        s2 == [chk.s EXCEPT !.wopStatus[desc] = @ - 1]
                    IN  IF ~chk.ok
                        THEN PromoteWaitingOperatorKeepCount(cancelAll(chk.s, unit))
                        ELSE {addAll(s2, unit).s}
                    : ex \in exceedStoreLimitLocked(s1, unit, InfluencedStores(s1, unit)) }
            : b \in bands }

RECURSIVE PromoteWaitingOperator(_)
PromoteWaitingOperator(s) ==
    LET bands == { b \in Priorities : s.wop[b] # <<>> }
    IN  IF bands = {} THEN {s}
        ELSE UNION {
            LET n == IF IsMerge(s.ops[Head(s.wop[b])]) THEN 2 ELSE 1
                unit == SubSeq(s.wop[b], 1, n)
                desc == Desc(s.ops[unit[1]])
                s1 == [s EXCEPT !.wop[b] = SubSeq(@, n + 1, Len(@))]
            IN  UNION {
                    LET chk == IF ex.exceed THEN [ok |-> FALSE, s |-> ex.s]
                               ELSE checkAddOperator(ex.s, unit)
                        s2 == [chk.s EXCEPT !.wopStatus[desc] = @ - 1]
                    IN  IF ~chk.ok
                        THEN PromoteWaitingOperator(
                                 [cancelAll(chk.s, unit) EXCEPT !.wopStatus[desc] = @ - 1])
                        ELSE {addAll(s2, unit).s}
                    : ex \in exceedStoreLimitLocked(s1, unit, InfluencedStores(s1, unit)) }
            : b \in bands }

\* AddOperator: the set of possible outcomes
AddOperator(s, os) ==
    UNION {
        LET chk == IF ex.exceed THEN [ok |-> FALSE, s |-> ex.s]
                   ELSE checkAddOperator(ex.s, os)
        IN  IF ~chk.ok THEN {[ok |-> FALSE, s |-> cancelAll(chk.s, os)]}
            ELSE {addAll(chk.s, os)}
        : ex \in exceedStoreLimitLocked(s, os, InfluencedStores(s, os)) }

\* pollNeedDispatchRegion for the heap's top item
pollItem(s, item) ==
    LET s1 == [s EXCEPT !.queue = @ \ {item}]
        regionID == s.ops[item.op].region
        o == s.operators[regionID]
    IN  IF o = NoOp THEN [s |-> s1, r |-> 0, next |-> TRUE, gone |-> NoOp]
        ELSE IF ~GetRegion(regionID).exists
        THEN [s |-> cancelAndBury(removeOperatorLocked(s1, o).s, o),
              r |-> 0, next |-> TRUE, gone |-> o]
        ELSE LET chk == Check(s1.ops[o], now)
                 s2 == [s1 EXCEPT !.ops[o] = chk.op]
             IN  IF chk.step = NilStep
                 THEN [s |-> s2, r |-> regionID, next |-> TRUE, gone |-> NoOp]
                 ELSE IF now < item.time
                 THEN [s |-> [s2 EXCEPT !.queue = @ \cup {item}],
                       r |-> 0, next |-> FALSE, gone |-> NoOp]
                 ELSE [s |-> [s2 EXCEPT !.queue = @ \cup
                                 {[item EXCEPT !.time =
                                      getNextPushOperatorTime(chk.step, now)]}],
                       r |-> regionID, next |-> TRUE, gone |-> NoOp]

\* pollNeedDispatchRegion: heap.Pop hands out an item with the least time
pollNeedDispatchRegion(s) ==
    IF s.queue = {} THEN {[s |-> s, r |-> 0, next |-> FALSE, gone |-> NoOp]}
    ELSE { pollItem(s, item) :
             item \in { i \in s.queue : \A j \in s.queue : i.time <= j.time } }

\* pushHistory: one record for each step of the operator, pushed to the front
pushHistory(s, o) ==
    [s EXCEPT !.histories = <<[op |-> o, FinishTime |-> s.ops[o].finish]>> \o @]

\* PruneHistory
RECURSIVE pruneBack(_, _)
pruneBack(h, t) ==
    IF h # <<>> /\ t - h[Len(h)].FinishTime > historyKeepTime
    THEN pruneBack(SubSeq(h, 1, Len(h) - 1), t)
    ELSE h

\* GetHistory
RECURSIVE GetHistory(_, _)
GetHistory(h, start) ==
    IF h = <<>> \/ Head(h).FinishTime < start THEN <<>>
    ELSE <<Head(h)>> \o GetHistory(Tail(h), start)

\* GetOperator
GetOperator(regionID) == operators[regionID]

\* GetOperatorStatus: the operator and its status, NoRecord for nil
GetOperatorStatus(id) ==
    IF operators[id] # NoOp
    THEN [op |-> operators[id], status |-> ops[operators[id]].status, time |-> now]
    ELSE RecordsGet(opRecords, id, now)


(***************************************************************************)
(* Threads.  "sched" is a scheduler calling AddWaitingOperator and         *)
(* RemoveOperator, "hb" handles region heartbeats (Dispatch), "push" is    *)
(* the timer thread (PushOperators).  A thread's todo lists the steps left *)
(* of its call; every step is one critical section of the controller lock  *)
(* or one piece of unlocked code between two of them.                      *)
(***************************************************************************)
Threads == {"sched", "hb", "push"}
\* What the model keeps of a call: its inputs and result, the tokens taken
\* (taken), the input operators put into the waiting bucket (put), whether
\* it has invoked PromoteWaitingOperator (promoted), and the operator a
\* PushOperators run has buried because its region disappeared (gone).
NoCall == [call |-> "", ops |-> <<>>, ok |-> TRUE, added |-> 0, taken |-> 0,
           put |-> 0, promoted |-> FALSE, gone |-> 0]
Idle == [todo |-> <<>>, op |-> NoOp, region |-> 0, source |-> "", call |-> NoCall]

SetOC(s) ==
    /\ ops' = s.ops
    /\ operators' = s.operators
    /\ wop' = s.wop
    /\ wopStatus' = s.wopStatus
    /\ counts' = s.counts
    /\ opRecords' = s.opRecords
    /\ opNotifierQueue' = s.queue
    /\ histories' = s.histories
    /\ fastOperators' = s.fastOperators
    /\ storeLimit' = s.storeLimit
    /\ sent' = s.sent
    /\ UNCHANGED <<treeVars, lockVars>>

\* Thread t goes on with the locals th; a call that has nothing left to do
\* returns, and an admission call leaves its result in lastCall, where it
\* stays until the next step of anybody.
Continue(t, th) ==
    /\ threads' = [threads EXCEPT ![t] = IF th.todo = <<>> THEN Idle ELSE th]
    /\ lastCall' = IF th.todo = <<>> THEN th.call ELSE NoCall

\* A thread may enter a call of several steps.
MayEnter(t) ==
    /\ threads[t] = Idle
    /\ Cardinality({ u \in Threads : threads[u] # Idle }) < MaxInFlight

AtStep(t, name) == threads[t].todo # <<>> /\ Head(threads[t].todo) = name

\* What a scheduler passes to a call: operators it has just created from
\* the cluster view, one to MaxCallOps of them.  A merge operator that
\* follows an active merge operator is the passive half of that merge, for
\* another region and with the same priority (MergePriority); no other
\* operator is passive.  The regions being alike, the first operator of a
\* behaviour is one for region 1.
MergePriority == 2
InputOp ==
    { d \in [shape : {"region", "merge"}, region : RegionIds,
             priority : InputPriorities, passive : BOOLEAN] :
        /\ d.passive => d.shape = "merge"
        /\ d.shape = "merge" => d.priority = MergePriority }
Inputs ==
    { ds \in UNION { [1..n -> InputOp] : n \in 1..MaxCallOps } :
        /\ Len(ops) + Len(ds) <= MaxOps
        /\ ops = <<>> => ds[1].region = 1
        /\ \A i \in DOMAIN ds :
              ds[i].passive <=>
                  /\ i > 1 /\ ds[i].shape = "merge"
                  /\ ds[i - 1].shape = "merge" /\ ~ds[i - 1].passive
        /\ \A i \in DOMAIN ds :
              ds[i].passive => ds[i].region # ds[i - 1].region }

Epoch(r) == [confVer |-> cluster.regions[r].confVer,
             version |-> cluster.regions[r].version]

\* the controller's view with the new operators, and their ids
Created(ds) ==
    [OC EXCEPT !.ops = @ \o [i \in DOMAIN ds |->
        NewOperator(ds[i].shape, ds[i].region, ds[i].priority, ds[i].passive,
                    Epoch(ds[i].region), now)]]
NewIds(ds) == [i \in DOMAIN ds |-> Len(ops) + i]

\* oc.AddOperator(ops...)
CallAddOperator ==
    \E ds \in Inputs :
        \E r \in AddOperator(Created(ds), NewIds(ds)) :
            /\ SetOC(r.s)
            /\ lastCall' = [NoCall EXCEPT !.call = "AddOperator",
                                           !.ops = NewIds(ds), !.ok = r.ok,
                                           !.taken = r.s.taken]
            /\ UNCHANGED <<cluster, now, threads>>

\* oc.AddWaitingOperator(ops...): its locked part; PromoteWaitingOperator
\* follows unless the call has returned early.
CallAddWaitingOperator ==
    /\ MayEnter("sched")
    /\ \E ds \in Inputs :
          LET r == addWaiting(Created(ds), NewIds(ds), 1, 0)
              inBucket == UNION { Range(r.s.wop[b]) : b \in Priorities }
              call == [NoCall EXCEPT
                          !.call = "AddWaitingOperator", !.ops = NewIds(ds),
                          !.ok = r.promote, !.added = r.added,
                          !.put = Cardinality(Range(NewIds(ds)) \cap inBucket)]
          IN  /\ SetOC(r.s)
              /\ Continue("sched", [Idle EXCEPT
                     !.todo = IF r.promote THEN <<"promote">> ELSE <<>>,
                     !.call = call])
    /\ UNCHANGED <<cluster, now>>

\* oc.RemoveOperator(op) called from outside for a running operator
CallRemoveOperator ==
    /\ MayEnter("sched")
    /\ \E r \in RegionIds :
          /\ operators[r] # NoOp
          /\ threads' = [threads EXCEPT !["sched"] =
                [Idle EXCEPT !.todo = <<"removeOnly">>, !.op = operators[r],
                             !.region = r]]
    /\ UNCHANGED <<ops, operators, wop, wopStatus, counts, opRecords,
                   opNotifierQueue, histories, fastOperators, storeLimit, cluster,
                   now>>
    /\ sent' = NoMsg
    /\ UNCHANGED <<treeVars, lockVars>>
    /\ lastCall' = NoCall

\* oc.PromoteWaitingOperator() called from outside
CallPromoteWaitingOperator ==
    /\ \E b \in Priorities : wop[b] # <<>>
    /\ \E s \in PromoteWaitingOperator(OC) : SetOC(s)
    /\ UNCHANGED <<cluster, now, threads>>
    /\ lastCall' = NoCall

\* oc.PruneHistory()
CallPruneHistory ==
    /\ histories # <<>>
    /\ histories' = pruneBack(histories, now)
    /\ UNCHANGED <<ops, operators, wop, wopStatus, counts, opRecords,
                   opNotifierQueue, fastOperators, storeLimit, cluster, now,
                   threads>>
    /\ sent' = NoMsg
    /\ UNCHANGED <<treeVars, lockVars>>
    /\ lastCall' = NoCall

\* oc.Dispatch(region, "heartbeat"), up to its GetOperator
CallDispatch ==
    /\ MayEnter("hb")
    /\ \E r \in RegionIds :
          /\ cluster.regions[r].exists
          /\ GetOperator(r) # NoOp
          /\ threads' = [threads EXCEPT !["hb"] =
                [Idle EXCEPT !.todo = <<"check">>, !.op = GetOperator(r),
                             !.region = r, !.source = DispatchFromHeartBeat]]
    /\ UNCHANGED <<ops, operators, wop, wopStatus, counts, opRecords,
                   opNotifierQueue, histories, fastOperators, storeLimit, cluster,
                   now>>
    /\ sent' = NoMsg
    /\ UNCHANGED <<treeVars, lockVars>>
    /\ lastCall' = NoCall

\* oc.PushOperators()
CallPushOperators ==
    /\ MayEnter("push")
    /\ opNotifierQueue # {}
    /\ threads' = [threads EXCEPT !["push"] =
          [Idle EXCEPT !.todo = <<"poll">>, !.source = DispatchFromNotifierQueue,
                       !.call.call = "PushOperators"]]
    /\ UNCHANGED <<ops, operators, wop, wopStatus, counts, opRecords,
                   opNotifierQueue, histories, fastOperators, storeLimit, cluster,
                   now>>
    /\ sent' = NoMsg
    /\ UNCHANGED <<treeVars, lockVars>>
    /\ lastCall' = NoCall

\* PushOperators: r, next := oc.pollNeedDispatchRegion()
StepPoll(t) ==
    /\ AtStep(t, "poll")
    /\ \E r \in pollNeedDispatchRegion(OC) :
          /\ SetOC(r.s)
          /\ Continue(t, [threads[t] EXCEPT
                 !.todo = IF ~r.next THEN <<>>
                          ELSE IF r.r = 0 THEN <<"poll">>
                          ELSE <<"getop", "poll">>,
                 !.region = r.r, !.op = NoOp,
                 !.call.gone = IF r.gone # NoOp THEN r.gone ELSE @,
                 !.call.promoted = IF r.gone # NoOp THEN FALSE ELSE @])
    /\ UNCHANGED <<cluster, now>>

\* Dispatch: op := oc.GetOperator(region.GetID())
StepGetOp(t) ==
    /\ AtStep(t, "getop")
    /\ LET o == GetOperator(threads[t].region)
       IN  Continue(t, [threads[t] EXCEPT
               !.todo = IF o = NoOp THEN Tail(@) ELSE <<"check">> \o Tail(@),
               !.op = o])
    /\ UNCHANGED <<ops, operators, wop, wopStatus, counts, opRecords,
                   opNotifierQueue, histories, fastOperators, storeLimit, cluster,
                   now>>
    /\ sent' = NoMsg
    /\ UNCHANGED <<treeVars, lockVars>>

\* Dispatch: step := op.Check(region); switch op.Status()
StepCheck(t) ==
    /\ AtStep(t, "check")
    /\ LET th == threads[t]
           chk == Check(ops[th.op], now)
           st == chk.op.status
           branch == CASE st = STARTED ->
                            IF th.source = DispatchFromHeartBeat
                            THEN <<"stale">> ELSE <<"send">>
                       [] st = SUCCESS -> <<"pushHistory", "remove", "fast">>
                       [] st = TIMEOUT -> <<"remove">>
                       [] OTHER -> <<"remove">>
       IN  /\ ops' = [ops EXCEPT ![th.op] = chk.op]
           /\ Continue(t, [th EXCEPT !.todo = branch \o Tail(@)])
    /\ UNCHANGED <<operators, wop, wopStatus, counts, opRecords, opNotifierQueue,
                   histories, fastOperators, storeLimit, cluster, now>>
    /\ sent' = NoMsg
    /\ UNCHANGED <<treeVars, lockVars>>

\* OpStep.CheckInProgress: an AddPeer step fails when its store is gone
CheckInProgressFails(op) ==
    StepOf(op).type = "AddPeer" /\ ~HasStore(StepOf(op).ToStore)

\* checkStaleOperator, with the locked part of its RemoveOperator
StepStale(t) ==
    /\ AtStep(t, "stale")
    /\ LET th == threads[t]
           op == ops[th.op]
           changes == GetRegion(th.region).confVer - op.epoch.confVer
           stale == CheckInProgressFails(op) \/ changes > ConfVerChanged(op)
           rm == removeOperatorLocked(OC, th.op)
       IN  IF stale /\ rm.ok
           THEN /\ SetOC(rm.s)
                /\ Continue(t, [th EXCEPT !.todo = <<"bury", "promote">> \o Tail(@)])
           ELSE /\ SetOC(OC)
                /\ Continue(t, [th EXCEPT !.todo = <<"send">> \o Tail(@)])
    /\ UNCHANGED <<cluster, now>>

\* Dispatch: oc.SendScheduleCommand(region, step, source)
StepSend(t) ==
    /\ AtStep(t, "send")
    /\ LET th == threads[t]
       IN  /\ SetOC(SendScheduleCommand(OC, th.region, StepOf(ops[th.op]), th.source))
           /\ Continue(t, [th EXCEPT !.todo = Tail(@)])
    /\ UNCHANGED <<cluster, now>>

\* Dispatch: oc.pushHistory(op)
StepPushHistory(t) ==
    /\ AtStep(t, "pushHistory")
    /\ SetOC(pushHistory(OC, threads[t].op))
    /\ Continue(t, [threads[t] EXCEPT !.todo = Tail(@)])
    /\ UNCHANGED <<cluster, now>>

\* The locked part of RemoveOperator (lines 563-565) and of
\* removeOperatorWithoutBury; the unlocked rest follows if it removed.
\* A Dispatch that removed goes on to PromoteWaitingOperator.
StepRemove(t) ==
    /\ AtStep(t, "remove") \/ AtStep(t, "removeOnly")
    /\ LET th == threads[t]
           rm == removeOperatorLocked(OC, th.op)
           more == IF ~rm.ok THEN <<>>
                   ELSE IF Head(th.todo) = "remove" THEN <<"bury", "promote">>
                   ELSE <<"bury">>
       IN  /\ SetOC(rm.s)
           /\ Continue(t, [th EXCEPT !.todo = more \o Tail(@)])
    /\ UNCHANGED <<cluster, now>>

\* The unlocked part of RemoveOperator (lines 566-574): op.Cancel(), buryOperator
\* The bury step with the tokens of the operator handed back to the limiters
StepBuryCreditBack(t) ==
    /\ AtStep(t, "bury")
    /\ LET o == threads[t].op
           credited == [st \in StoreIds |-> [ty \in LimitTypes |->
               IF storeLimit[st][ty] = NoLimiter THEN NoLimiter
               ELSE [storeLimit[st][ty] EXCEPT !.available =
                        IF @ + StepCost(ops[o], st, ty) > LimiterCapacity
                        THEN LimiterCapacity
                        ELSE @ + StepCost(ops[o], st, ty)]]]
       IN  SetOC([cancelAndBury(OC, o) EXCEPT !.storeLimit = credited])
    /\ Continue(t, [threads[t] EXCEPT !.todo = Tail(@)])
    /\ UNCHANGED <<cluster, now>>

StepBury(t) ==
    /\ AtStep(t, "bury")
    /\ SetOC(cancelAndBury(OC, threads[t].op))
    /\ Continue(t, [threads[t] EXCEPT !.todo = Tail(@)])
    /\ UNCHANGED <<cluster, now>>

\* oc.PromoteWaitingOperator() at the end of a call
StepPromote(t) ==
    /\ AtStep(t, "promote")
    /\ \E s \in PromoteWaitingOperator(OC) :
          /\ SetOC(s)
          /\ Continue(t, [threads[t] EXCEPT
                 !.todo = Tail(@), !.call.taken = s.taken,
                 !.call.promoted = (@ \/ threads[t].call.call # "")])
    /\ UNCHANGED <<cluster, now>>

\* Dispatch that publishes every finished operator into fastOperators
StepFastAlways(t) ==
    /\ AtStep(t, "fast")
    /\ LET th == threads[t]
           op == ops[th.op]
       IN  /\ fastOperators' =
                  [fastOperators EXCEPT ![op.region] = [op |-> th.op, time |-> now]]
           /\ Continue(t, [th EXCEPT !.todo = Tail(@)])
    /\ UNCHANGED <<ops, operators, wop, wopStatus, counts, opRecords,
                   opNotifierQueue, histories, storeLimit, cluster, now>>
    /\ sent' = NoMsg
    /\ UNCHANGED <<treeVars, lockVars>>

\* Dispatch: oc.pushFastOperator(op) if the operator ran for less than
\* FastOperatorFinishTime
StepFast(t) ==
    /\ AtStep(t, "fast")
    /\ LET th == threads[t]
           op == ops[th.op]
       IN  /\ fastOperators' =
                  IF now - op.start < FastOperatorFinishTime
                  THEN [fastOperators EXCEPT ![op.region] = [op |-> th.op, time |-> now]]
                  ELSE fastOperators
           /\ Continue(t, [th EXCEPT !.todo = Tail(@)])
    /\ UNCHANGED <<ops, operators, wop, wopStatus, counts, opRecords,
                   opNotifierQueue, histories, storeLimit, cluster, now>>
    /\ sent' = NoMsg
    /\ UNCHANGED <<treeVars, lockVars>>

(***************************************************************************)
(* The environment: the stores apply steps, regions change, time passes.   *)
(***************************************************************************)
\* The region of a started operator applies the operator's step; a peer
\* change raises the region's conf_ver.
RegionApplies ==
    /\ \E o \in DOMAIN ops :
          /\ ops[o].status = STARTED /\ ~ops[o].applied
          /\ cluster.regions[ops[o].region].exists
          /\ ops' = [ops EXCEPT ![o].applied = TRUE]
          /\ cluster' = IF ops[o].shape = "region"
                        THEN [cluster EXCEPT !.regions[ops[o].region].confVer = @ + 1]
                        ELSE cluster
    /\ UNCHANGED <<operators, wop, wopStatus, counts, opRecords, opNotifierQueue,
                   histories, fastOperators, storeLimit, now, threads>>
    /\ sent' = NoMsg
    /\ UNCHANGED <<treeVars, lockVars>>
    /\ lastCall' = NoCall

\* Somebody else changes the peers of a region, or splits it.
RegionChanges ==
    /\ \E r \in RegionIds, f \in {"confVer"} :
          /\ cluster.regions[r].exists
          /\ cluster.changes < MaxChanges
          /\ cluster' = [cluster EXCEPT !.regions[r][f] = @ + 1,
                                        !.changes = @ + 1]
    /\ UNCHANGED <<ops, operators, wop, wopStatus, counts, opRecords,
                   opNotifierQueue, histories, fastOperators, storeLimit, now,
                   threads>>
    /\ sent' = NoMsg
    /\ UNCHANGED <<treeVars, lockVars>>
    /\ lastCall' = NoCall

\* A region vanishes from the cluster view.
RegionDisappears ==
    /\ \E r \in RegionIds :
          /\ cluster.regions[r].exists
          /\ cluster.changes < MaxChanges
          /\ cluster' = [cluster EXCEPT !.regions[r].exists = FALSE,
                                        !.changes = @ + 1]
    /\ UNCHANGED <<ops, operators, wop, wopStatus, counts, opRecords,
                   opNotifierQueue, histories, fastOperators, storeLimit, now,
                   threads>>
    /\ sent' = NoMsg
    /\ UNCHANGED <<treeVars, lockVars>>
    /\ lastCall' = NoCall

\* A store is removed from the cluster.
StoreDisappears ==
    /\ \E st \in StoreIds :
          /\ cluster.stores[st]
          /\ cluster.changes < MaxChanges
          /\ cluster' = [cluster EXCEPT !.stores[st] = FALSE,
                                        !.changes = @ + 1]
    /\ UNCHANGED <<ops, operators, wop, wopStatus, counts, opRecords,
                   opNotifierQueue, histories, fastOperators, storeLimit, now,
                   threads>>
    /\ sent' = NoMsg
    /\ UNCHANGED <<treeVars, lockVars>>
    /\ lastCall' = NoCall

\* Time passes; the buckets of the limiters refill.
Tick ==
    /\ now < MaxTicks * TickSeconds
    /\ now' = now + TickSeconds
    /\ storeLimit' = [st \in StoreIds |-> [ty \in LimitTypes |->
           IF storeLimit[st][ty] = NoLimiter THEN NoLimiter
           ELSE [storeLimit[st][ty] EXCEPT !.available = LimiterCapacity]]]
    /\ UNCHANGED <<ops, operators, wop, wopStatus, counts, opRecords,
                   opNotifierQueue, histories, fastOperators, cluster, threads>>
    /\ sent' = NoMsg
    /\ UNCHANGED <<treeVars, lockVars>>
    /\ lastCall' = NoCall

CtlInit ==
    /\ ops = <<>>
    /\ operators = [r \in RegionIds |-> NoOp]
    /\ wop = [b \in Priorities |-> <<>>]
    /\ wopStatus = [d \in OpShapes |-> 0]
    /\ counts = [k \in OpShapes |-> 0]
    /\ opRecords = [r \in RegionIds |-> NoRecord]
    /\ opNotifierQueue = {}
    /\ histories = <<>>
    /\ fastOperators = [r \in RegionIds |-> [op |-> NoOp, time |-> 0]]
    /\ storeLimit = [st \in StoreIds |-> [ty \in LimitTypes |-> NoLimiter]]
    /\ \E m \in 1..MaxWaiting :
          cluster = [regions |-> [r \in RegionIds |->
                                     [exists |-> TRUE, confVer |-> 0,
                                      version |-> 0]],
                     stores |-> [st \in StoreIds |-> TRUE], changes |-> 0,
                     maxWaiting |-> m, storeLimitRate |-> 1]
    /\ now = 0
    /\ threads = [t \in Threads |-> Idle]
    /\ sent = NoMsg
    /\ lastCall = NoCall

(***************************************************************************)
(* The controller lock.  OperatorController embeds a sync.RWMutex          *)
(* (healthy.go:122).  What a method does with the lock is a sequence of    *)
(* items: a Lock, Unlock, RLock or RUnlock at a line of the source, or the *)
(* call of another method of the controller at a line of the source.  A    *)
(* deferred Unlock is the last item of its method.  A method with several  *)
(* paths has one sequence per path.                                        *)
(***************************************************************************)
Lock(line) == [op |-> "Lock", fn |-> "", line |-> line]
Unlock(line) == [op |-> "Unlock", fn |-> "", line |-> line]
RLock(line) == [op |-> "RLock", fn |-> "", line |-> line]
RUnlock(line) == [op |-> "RUnlock", fn |-> "", line |-> line]
Call(fn) == [op |-> "call", fn |-> fn, line |-> 0]

\* The methods that do oc.RLock(); defer oc.RUnlock() and call no method of
\* the controller, with the line of their RLock.
ReadMethods ==
    [GetCluster |-> 161, GetOperator |-> 668, GetOperators |-> 675,
     GetWaitingOperators |-> 688, GetHistory |-> 814, OperatorCount |-> 840,
     GetOpInfluence |-> 850]

\* The methods that do oc.Lock(); defer oc.Unlock() and call no method of
\* the controller, with the line of their Lock.
WriteMethods ==
    [GetOperatorStatus |-> 658, pushHistory |-> 789, PruneHistory |-> 802,
     SetOperator |-> 900]

\* "if removed { oc.PromoteWaitingOperator() }" after a RemoveOperator or a
\* removeOperatorWithoutBury: healthy.go:188-190, 197-199, 202-216, 225-228
\* and 240-248
PromoteIfRemoved == { <<>>, <<Call("PromoteWaitingOperator")>> }

\* Dispatch, healthy.go:167-220: GetOperator at line 169, then the switch
DispatchBody == { <<Call("GetOperator"), Call("Dispatch.switch")>> }

\* The switch of Dispatch on the status of the operator, healthy.go:179-219;
\* with no operator it is skipped.  The calls of SendScheduleCommand,
\* pushFastOperator and buryOperator made here hold no lock and take none.
DispatchSwitch ==
    {  <<>>,
       <<Call("checkStaleOperator")>>,                               \* 182
       <<Call("pushHistory"), Call("RemoveOperator"),                \* 187, 188
         Call("PromoteIfRemoved")>>,
       <<Call("RemoveOperator"), Call("PromoteIfRemoved")>>,         \* 197
       <<Call("removeOperatorWithoutBury"),                          \* 202
         Call("PromoteIfRemoved")>> }

\* checkStaleOperator, healthy.go:222-254: RemoveOperator at line 225, at
\* line 240, or at both when the first removes nothing
checkStaleOperatorBody ==
    {  <<>>,
       <<Call("RemoveOperator"), Call("PromoteIfRemoved")>>,
       <<Call("RemoveOperator"), Call("RemoveOperator"),
         Call("PromoteIfRemoved")>> }

\* pollNeedDispatchRegion, healthy.go:268-306
pollNeedDispatchRegionBody ==
    {  <<Lock(269), Unlock(270)>>,
       <<Lock(269), Call("removeOperatorLocked"),                    \* 282
         Call("buryOperator"), Unlock(270)>> }                       \* 289

\* PushOperators, healthy.go:309-321
PushOperatorsBody ==
    { <<Call("pollNeedDispatchRegion"), Call("PushOperators.next")>> }

\* What PushOperators does with the result of the poll: it returns (line
\* 312), goes round the loop (line 315) or dispatches and goes round
\* (line 319).
PushOperatorsNext ==
    {  <<>>,
       <<Call("PushOperators")>>,
       <<Call("Dispatch"), Call("PushOperators")>> }

\* AddWaitingOperator with PromoteWaitingOperator invoked before the Unlock
\* of line 372, and with a rejection path that returns without its Unlock
AddWaitingOperatorBodyNested ==
    {  <<Lock(325), Call("checkAddOperator"), Call("buryOperator")>>,
       <<Lock(325), Call("checkAddOperator"),
         Call("PromoteWaitingOperator"), Unlock(372)>> }

\* AddWaitingOperator, healthy.go:324-376
AddWaitingOperatorBody ==
    {  <<Lock(325), Unlock(336)>>,
       <<Lock(325), Unlock(342)>>,
       <<Lock(325), Call("checkAddOperator"), Call("buryOperator"),  \* 347, 349
         Unlock(356)>>,
       <<Lock(325), Call("checkAddOperator"), Unlock(372),
         Call("PromoteWaitingOperator")>> }                          \* 374

\* AddOperator, healthy.go:379-396
AddOperatorBody ==
    {  <<Lock(380), Call("exceedStoreLimitLocked"),                  \* 383
         Call("checkAddOperator"), Call("buryOperator"),             \* 383, 386
         Unlock(381)>>,
       <<Lock(380), Call("exceedStoreLimitLocked"),
         Call("checkAddOperator"), Call("addOperatorLocked"),        \* 391
         Unlock(381)>> }

\* PromoteWaitingOperator, healthy.go:399-429
PromoteWaitingOperatorBody ==
    {  <<Lock(400), Unlock(401)>>,
       <<Lock(400), Call("exceedStoreLimitLocked"),                  \* 411
         Call("checkAddOperator"), Call("buryOperator"),             \* 411, 415
         Unlock(401)>>,
       <<Lock(400), Call("exceedStoreLimitLocked"),
         Call("checkAddOperator"), Call("addOperatorLocked"),        \* 425
         Unlock(401)>> }

\* addOperatorLocked, healthy.go:494-559
addOperatorLockedBody ==
    {  <<Call("SendScheduleCommand")>>,                              \* 549
       <<Call("removeOperatorLocked"), Call("buryOperator"),         \* 505, 507
         Call("SendScheduleCommand")>> }

\* RemoveOperator, healthy.go:562-576; the buryOperator of line 573 comes
\* after the Unlock
RemoveOperatorBody ==
    { <<Lock(563), Call("removeOperatorLocked"), Unlock(565),
        Call("buryOperator")>> }

\* removeOperatorWithoutBury, healthy.go:578-582
removeOperatorWithoutBuryBody ==
    { <<Lock(579), Call("removeOperatorLocked"), Unlock(580)>> }

\* ExceedStoreLimit, healthy.go:956-960
ExceedStoreLimitBody ==
    { <<Lock(957), Call("exceedStoreLimitLocked"), Unlock(958)>> }

\* The paths of a method.  checkAddOperator, removeOperatorLocked,
\* buryOperator, exceedStoreLimitLocked, SendScheduleCommand and
\* pushFastOperator touch neither the lock nor a method that does.
Body(fn) ==
    CASE fn \in DOMAIN ReadMethods ->
             { <<RLock(ReadMethods[fn]), RUnlock(ReadMethods[fn] + 1)>> }
      [] fn \in DOMAIN WriteMethods ->
             { <<Lock(WriteMethods[fn]), Unlock(WriteMethods[fn] + 1)>> }
      [] fn = "Dispatch" -> DispatchBody
      [] fn = "Dispatch.switch" -> DispatchSwitch
      [] fn = "PromoteIfRemoved" -> PromoteIfRemoved
      [] fn = "PushOperators.next" -> PushOperatorsNext
      [] fn = "checkStaleOperator" -> checkStaleOperatorBody
      [] fn = "pollNeedDispatchRegion" -> pollNeedDispatchRegionBody
      [] fn = "PushOperators" -> PushOperatorsBody
      [] fn = "AddWaitingOperator" -> AddWaitingOperatorBody
      [] fn = "AddOperator" -> AddOperatorBody
      [] fn = "PromoteWaitingOperator" -> PromoteWaitingOperatorBody
      [] fn = "addOperatorLocked" -> addOperatorLockedBody
      [] fn = "RemoveOperator" -> RemoveOperatorBody
      [] fn = "removeOperatorWithoutBury" -> removeOperatorWithoutBuryBody
      [] fn = "ExceedStoreLimit" -> ExceedStoreLimitBody
      [] OTHER -> { <<>> }

\* The methods other packages call
PublicMethods ==
    {"Dispatch", "PushOperators", "AddWaitingOperator", "AddOperator",
     "PromoteWaitingOperator", "RemoveOperator", "PruneHistory",
     "GetOperatorStatus", "SetOperator", "ExceedStoreLimit"}
    \cup DOMAIN ReadMethods

\* Who calls what: the schedulers and the API add, remove and read, the
\* heartbeats dispatch, the background jobs push and prune.
MethodsOf(t) ==
    CASE t = "hb" -> {"Dispatch"}
      [] t = "push" -> {"PushOperators", "PruneHistory"}
      [] OTHER -> PublicMethods \ {"Dispatch", "PushOperators"}

NoThread == ""
Returned == [method |-> "", todo |-> <<>>]

\* thread t holds the lock, for writing or for reading
Holds(t) == mutex.writer = t \/ t \in mutex.readers

\* the next item of thread t is op
NextItem(t, op) == locking[t].todo # <<>> /\ Head(locking[t].todo).op = op

LockInit ==
    /\ mutex = [writer |-> NoThread, readers |-> {}]
    /\ locking = [t \in Threads |-> Returned]

\* A thread that is in no method calls a public method.
Enter(t) ==
    /\ locking[t].todo = <<>>
    /\ \E m \in MethodsOf(t) :
          locking' = [locking EXCEPT ![t] = [method |-> m, todo |-> <<Call(m)>>]]
    /\ UNCHANGED <<mutex, treeVars, ctlVars>>

\* The call at the head of the thread is replaced by one path of its body.
Invoke(t) ==
    /\ NextItem(t, "call")
    /\ \E path \in Body(Head(locking[t].todo).fn) :
          locking' = [locking EXCEPT ![t].todo = path \o Tail(@)]
    /\ UNCHANGED <<mutex, treeVars, ctlVars>>

\* RWMutex.Lock: waits until nobody holds the lock
DoLock(t) ==
    /\ NextItem(t, "Lock")
    /\ mutex.writer = NoThread /\ mutex.readers = {}
    /\ mutex' = [mutex EXCEPT !.writer = t]
    /\ locking' = [locking EXCEPT ![t].todo = Tail(@)]
    /\ UNCHANGED <<treeVars, ctlVars>>

\* RWMutex.Unlock
DoUnlock(t) ==
    /\ NextItem(t, "Unlock")
    /\ mutex.writer # NoThread
    /\ mutex' = [mutex EXCEPT !.writer = NoThread]
    /\ locking' = [locking EXCEPT ![t].todo = Tail(@)]
    /\ UNCHANGED <<treeVars, ctlVars>>

\* RWMutex.RLock: waits while a writer holds the lock
DoRLock(t) ==
    /\ NextItem(t, "RLock")
    /\ mutex.writer = NoThread
    /\ t \notin mutex.readers
    /\ mutex' = [mutex EXCEPT !.readers = @ \cup {t}]
    /\ locking' = [locking EXCEPT ![t].todo = Tail(@)]
    /\ UNCHANGED <<treeVars, ctlVars>>

\* RWMutex.RUnlock
DoRUnlock(t) ==
    /\ NextItem(t, "RUnlock")
    /\ t \in mutex.readers
    /\ mutex' = [mutex EXCEPT !.readers = @ \ {t}]
    /\ locking' = [locking EXCEPT ![t].todo = Tail(@)]
    /\ UNCHANGED <<treeVars, ctlVars>>

LockNext ==
    \E t \in Threads :
        \/ Enter(t)
        \/ Invoke(t)
        \/ DoLock(t)
        \/ DoUnlock(t)
        \/ DoRLock(t)
        \/ DoRUnlock(t)

Init == TreeInit /\ CtlInit /\ LockInit

ThreadStep ==
    \E t \in Threads :
        \/ StepPoll(t)
        \/ StepGetOp(t)
        \/ StepCheck(t)
        \/ StepStale(t)
        \/ StepSend(t)
        \/ StepPushHistory(t)
        \/ StepRemove(t)
        \/ StepBury(t)
        \/ StepPromote(t)
        \/ StepFast(t)

\* The calls of the controller, the steps of the calls under way, and the
\* regions applying what they were told.
CtlNext ==
    \/ CallAddOperator
    \/ CallAddWaitingOperator
    \/ CallRemoveOperator
    \/ CallPromoteWaitingOperator
    \/ CallPruneHistory
    \/ CallDispatch
    \/ CallPushOperators
    \/ ThreadStep
    \/ RegionApplies

\* The controller while time passes, in a cluster that loses nothing.
Next ==
    \/ CtlNext
    \/ Tick

Spec == Init /\ [][Next]_vars

\* The controller in a cluster that changes under it.
ClusterNext ==
    \/ CtlNext
    \/ RegionChanges
    \/ RegionDisappears
    \/ StoreDisappears

ClusterSpec == Init /\ [][ClusterNext]_vars

\* The region tree alone.
TreeSpec == Init /\ [][TreeNext]_vars

\* The threads and the controller lock alone.
LockSpec == Init /\ [][LockNext]_vars


(***************************************************************************)
(* Properties of the region tree.                                          *)
(***************************************************************************)
\* C7: after any sequence of update and remove calls with valid regions, no
\* two tree entries a, b have a.start < b.start and a.end > b.start, an
\* empty end key counting as +infinity.
C7_NoOverlap ==
    \A a, b \in tree :
        ~(a.start < b.start /\ (a.end = 0 \/ a.end > b.start))

\* C7 at work: the tree holds three adjacent regions, the last one with an
\* empty end key.
C7_Witness ==
    \E a, b, c \in tree :
        /\ a.end = b.start /\ b.end = c.start /\ c.end = 0
        /\ a.start < b.start /\ b.start < c.start

\* C8: after every mutating call, totalSize is the sum of approximateSize
\* over the entries stored in the tree.
C8_TotalSizeIsSum == totalSize = SumSet(tree, "size")

\* C8 seen through TotalSize(): the tree is not empty and the size it
\* reports is not the sum of the sizes of its entries.
C8_Drifted == tree # {} /\ TotalSize # SumSet(tree, "size")

(***************************************************************************)
(* Properties of the operator controller.                                  *)
(***************************************************************************)
InBucket(o) == \E b \in Priorities : o \in Range(wop[b])
Running(o) == operators[ops[o].region] = o
StartedOn(r) == { o \in DOMAIN ops : ops[o].region = r /\ ops[o].status = STARTED }

\* C1: each region id has at most one operator whose status is STARTED
\* (operators, a map, has one entry for a region id or none).
C1_OneStartedPerRegion ==
    \A r \in RegionIds : Cardinality(StartedOn(r)) <= 1

\* C2: an operator installed in place of a running one has strictly higher
\* priority than the displaced operator, whose status is REPLACED.
C2_ReplacedByHigher ==
    \A o \in DOMAIN ops :
        ops[o].displaced # NoOp =>
            /\ ops[o].priority > ops[ops[o].displaced].priority
            /\ ops[ops[o].displaced].status = REPLACED

\* C3: when AddOperator returns false, no Take has been performed on any
\* store limiter during the call.
C3_NoTakeOnReject ==
    (lastCall.call = "AddOperator" /\ ~lastCall.ok) => lastCall.taken = 0

\* C4: an operator found in the operators map has status STARTED, and the
\* record of its region in opRecords is not a record of it.
C4_MapHoldsStarted ==
    \A r \in RegionIds :
        operators[r] # NoOp =>
            /\ ops[operators[r]].status = STARTED
            /\ opRecords[r].op # operators[r]

\* C5: GetOperatorStatus does not return absent for the region of an
\* operator that ran and has left the operators map less than
\* operatorStatusRemainTime ago.
C5_StatusNotAbsent ==
    \A o \in DOMAIN ops :
        (/\ ops[o].status \in {STARTED, SUCCESS, TIMEOUT, REPLACED}
         /\ ~Running(o)
         /\ now - ops[o].start <= operatorStatusRemainTime)
            => GetOperatorStatus(ops[o].region) # NoRecord

\* The condition an operator is in.
Condition(o) ==
    IF InBucket(o) THEN "waiting"
    ELSE IF Running(o) THEN "running"
    ELSE IF IsEndStatus(ops[o].status) THEN "terminal"
    ELSE "none"

\* C6: the two halves of a merge pair that AddWaitingOperator has admitted
\* are in the same condition: both waiting, both running or both terminal.
C6_NeverSeparate ==
    \A o \in DOMAIN ops :
        ops[o].partner # NoOp => Condition(o) = Condition(ops[o].partner)

\* C6, amended: the two halves of an admitted merge pair are in the waiting
\* bucket together, next to each other in one band, or both outside it.
C6_TogetherInBucket ==
    \A o \in DOMAIN ops :
        ops[o].partner # NoOp =>
            /\ InBucket(o) <=> InBucket(ops[o].partner)
            /\ InBucket(o) =>
                  \E b \in Priorities : \E i, j \in DOMAIN wop[b] :
                      /\ wop[b][i] = o /\ wop[b][j] = ops[o].partner
                      /\ (i = j + 1 \/ j = i + 1)

\* C6 at work: a merge pair has left the waiting bucket and both halves run.
C6_Witness ==
    \E o \in DOMAIN ops :
        /\ ops[o].partner # NoOp /\ ~ops[o].passive
        /\ Running(o) /\ Running(ops[o].partner)
        /\ ops[o].region # ops[ops[o].partner].region

C10_RejectedUnitBuried ==
    (lastCall.call = "AddWaitingOperator" /\ ~lastCall.ok) =>
        LET i == lastCall.added + 1
            unit == IF IsMerge(ops[lastCall.ops[i]]) /\ i + 1 <= Len(lastCall.ops)
                    THEN {lastCall.ops[i], lastCall.ops[i + 1]}
                    ELSE {lastCall.ops[i]}
        IN  \A o \in unit :
                /\ ops[o].status = CANCELED
                /\ opRecords[ops[o].region].op # NoOp

(***************************************************************************)
(* Properties of AddWaitingOperator, AddOperator and Dispatch.             *)
(***************************************************************************)
\* The first input of a returned AddWaitingOperator that was not counted.
FirstNotAdded == lastCall.ops[lastCall.added + 1]

\* C11: when AddWaitingOperator returns, no input operator is left in
\* status CREATED outside the waiting bucket, and the returned count is the
\* number of input operators put into the bucket.
C11_EveryUnitHandled ==
    lastCall.call = "AddWaitingOperator" =>
        /\ \A i \in DOMAIN lastCall.ops :
              ~(ops[lastCall.ops[i]].status = CREATED /\ ~InBucket(lastCall.ops[i]))
        /\ lastCall.added = lastCall.put

\* C11, the case: a unit was rejected by checkAddOperator, cancelled and
\* buried, and an input after it is still CREATED and in no bucket.
C11_LaterUnitLeft ==
    /\ lastCall.call = "AddWaitingOperator" /\ ~lastCall.ok
    /\ ops[FirstNotAdded].status = CANCELED
    /\ opRecords[ops[FirstNotAdded].region].op = FirstNotAdded
    /\ \E i \in DOMAIN lastCall.ops :
          /\ i > lastCall.added + 1
          /\ ~IsMerge(ops[lastCall.ops[i]])
          /\ ops[lastCall.ops[i]].status = CREATED
          /\ ~InBucket(lastCall.ops[i])

\* C12: a call of AddWaitingOperator that has returned has invoked
\* PromoteWaitingOperator.
C12_PromoteInvoked ==
    lastCall.call = "AddWaitingOperator" => lastCall.promoted

\* C12, the case: the call rejected a unit in checkAddOperator, cancelled
\* and buried it, and returned without PromoteWaitingOperator while another
\* operator waits in the bucket.
C12_RejectedNoPromote ==
    /\ lastCall.call = "AddWaitingOperator" /\ ~lastCall.promoted
    /\ ops[FirstNotAdded].status = CANCELED
    /\ opRecords[ops[FirstNotAdded].region].op = FirstNotAdded
    /\ \E b \in Priorities : wop[b] # <<>>

\* What checkAddOperator asks of one operator, for an operator that a step
\* has just put into the waiting bucket: the state before the step holds
\* the running operators, the state after it the operator itself and the
\* count of waiting operators with the operator's unit counted.
PassesAdmission(o) ==
    LET op == ops'[o]
        region == GetRegion(op.region)
        old == operators[op.region]
    IN  /\ region.exists
        /\ region.version = op.epoch.version
        /\ region.confVer = op.epoch.confVer
        /\ old = NoOp \/ isHigherPriorityOperator(op, ops[old])
        /\ op.status = CREATED
        /\ wopStatus'[Desc(op)] <= GetSchedulerMaxWaitingOperator
        /\ now - op.create <= OperatorExpireTime

\* C13: an operator enters the waiting bucket only if it passes, itself,
\* every admission check at that moment; both members of a merge pair do.
C13_PutOnlyChecked ==
    [][\A o \in DOMAIN ops' :
          (InBucket(o)' /\ ~(o \in DOMAIN ops /\ InBucket(o)))
              => PassesAdmission(o)]_vars

\* C14: when AddOperator returns false, every operator passed to it is
\* CANCELED, buried and out of the operators map, and the operators map,
\* the counts and the timer heap are what they were before the call.
C14_FailedAddUndone ==
    [][(lastCall'.call = "AddOperator" /\ ~lastCall'.ok) =>
          /\ \A i \in DOMAIN lastCall'.ops :
                LET o == lastCall'.ops[i]
                IN  /\ ops'[o].status = CANCELED
                    /\ opRecords'[ops'[o].region].op \in Range(lastCall'.ops)
                    /\ operators'[ops'[o].region] # o
          /\ operators' = operators
          /\ counts' = counts
          /\ opNotifierQueue' = opNotifierQueue]_vars

\* C14, the case: AddOperator has returned false and an operator passed to
\* it is STARTED, in the operators map and in no record.
C14_LeftRunning ==
    /\ lastCall.call = "AddOperator" /\ ~lastCall.ok
    /\ \E i \in DOMAIN lastCall.ops :
          /\ ops[lastCall.ops[i]].status = STARTED
          /\ Running(lastCall.ops[i])
          /\ opRecords[ops[lastCall.ops[i]].region].op # lastCall.ops[i]

\* checkStaleOperator's two conditions for the operator o of region r
Stale(o, r) ==
    \/ CheckInProgressFails(ops[o])
    \/ GetRegion(r).confVer - ops[o].epoch.confVer > ConfVerChanged(ops[o])

\* C15: when a Dispatch from a heartbeat has found the running operator
\* STARTED and checkStaleOperator finds the step rejected or the conf_ver
\* too far ahead, the operator leaves the operators map and what is left
\* of the call is its burial as CANCELED and PromoteWaitingOperator, with
\* no schedule command.
C15_StaleRemoved ==
    [][\A t \in Threads :
          (/\ AtStep(t, "stale") /\ threads'[t] # threads[t]
           /\ threads[t].source = DispatchFromHeartBeat
           /\ Stale(threads[t].op, threads[t].region))
          => /\ operators'[threads[t].region] # threads[t].op
             /\ ops'[threads[t].op].status \in {STARTED, CANCELED}
             /\ Len(threads'[t].todo) >= 2
             /\ SubSeq(threads'[t].todo, 1, 2) = <<"bury", "promote">>]_vars

\* fastOperators.Get(region id) hands out the operator o: the cache keeps an
\* entry for FastOperatorFinishTime
FastContains(o) ==
    /\ fastOperators[ops[o].region].op = o
    /\ now - fastOperators[ops[o].region].time <= FastOperatorFinishTime

\* C16: a Dispatch that has found the operator in SUCCESS buries it with a
\* record of SUCCESS, and when it is through with the operator, the
\* operator is out of the operators map and fastOperators contains it if
\* and only if it had run for less than FastOperatorFinishTime.
C16_SuccessBuriedFast ==
    [][\A t \in Threads : \A o \in {threads[t].op} :
              /\ (/\ AtStep(t, "bury") /\ threads'[t] # threads[t]
                  /\ ops[o].status = SUCCESS)
                    => opRecords'[ops[o].region] =
                           [op |-> o, status |-> SUCCESS, time |-> now]
              /\ (AtStep(t, "fast") /\ threads'[t] # threads[t])
                    => /\ ops'[o].status = SUCCESS
                       /\ operators'[ops[o].region] # o
                       /\ FastContains(o)' <=>
                              now - ops[o].start < FastOperatorFinishTime]_vars

\* C16 at work: one operator has finished fast, is recorded as SUCCESS and
\* is in fastOperators; another has finished after more than
\* FastOperatorFinishTime, is recorded as SUCCESS and is not.
C16_Witness ==
    \E o1, o2 \in DOMAIN ops :
        /\ ops[o1].status = SUCCESS /\ ops[o2].status = SUCCESS
        /\ ops[o1].finish - ops[o1].start < FastOperatorFinishTime
        /\ ops[o2].finish - ops[o2].start >= FastOperatorFinishTime
        /\ opRecords[ops[o1].region].op = o1
        /\ opRecords[ops[o2].region].op = o2
        /\ fastOperators[ops[o1].region].op = o1
        /\ fastOperators[ops[o2].region].op # o2
        /\ \A t \in Threads : threads[t] = Idle

\* The first unit of band b passes what PromoteWaitingOperator checks.
HeadPasses(b) ==
    /\ wop[b] # <<>>
    /\ ~IsMerge(ops[Head(wop[b])])
    /\ checkAddOperator(OC, <<Head(wop[b])>>).ok
    /\ \A ex \in exceedStoreLimitLocked(OC, <<Head(wop[b])>>,
                     InfluencedStores(OC, <<Head(wop[b])>>)) : ~ex.exceed

\* C17: a run of PushOperators that has buried an operator whose region
\* disappeared has invoked PromoteWaitingOperator after that.
C17_PromotesAfterDisappear ==
    (lastCall.call = "PushOperators" /\ lastCall.gone # NoOp)
        => lastCall.promoted

\* C17, the case: the run has ended, the operator of the vanished region is
\* buried as CANCELED, and a unit that passes admission is still waiting.
C17_WaiterLeft ==
    /\ lastCall.call = "PushOperators" /\ lastCall.gone # NoOp
    /\ ~lastCall.promoted
    /\ ops[lastCall.gone].status = CANCELED
    /\ opRecords[ops[lastCall.gone].region].op = lastCall.gone
    /\ \E b \in Priorities : HeadPasses(b)

(***************************************************************************)
(* Properties of getOverlaps.                                              *)
(***************************************************************************)
\* The ranges [e.start, e.end) and [q.start, q.end) share a key ("" as an
\* end key is +infinity).
Intersects(e, q) ==
    /\ (q.end = 0 \/ e.start < q.end)
    /\ (e.end = 0 \/ q.start < e.end)

\* C20: for every query region, getOverlaps returns exactly the entries of
\* the tree whose range intersects the query's range, each once, in
\* ascending order of start key.
C20_ExactOverlaps ==
    \A q \in ValidRegions :
        LET res == getOverlaps(tree, q)
        IN  /\ Range(res) = { e \in tree : Intersects(e, q) }
            /\ Len(res) = Cardinality(Range(res))
            /\ \A i \in 1..(Len(res) - 1) : res[i].start < res[i + 1].start

\* The query's start key falls into a gap behind an earlier entry, and the
\* scan that starts at the query itself still finds an entry.
C20_Witness ==
    \E q \in ValidRegions :
        /\ find(tree, q) = NilItem
        /\ \E e \in tree : e.start < q.start
        /\ getOverlaps(tree, q) # <<>>

(***************************************************************************)
(* Properties of the store limiters.                                       *)
(***************************************************************************)
\* C19: the steps that remove or bury an operator (RemoveOperator,
\* removeOperatorLocked, buryOperator, the disappeared-region path of
\* pollNeedDispatchRegion) leave every store limiter as it is, and no step
\* in which no time passes, the replacement in addOperatorLocked included,
\* raises the available tokens of a limiter: tokens are never credited back.
C19_NoCreditBack ==
    [][/\ \A t \in Threads :
              (/\ threads'[t] # threads[t]
               /\ \/ AtStep(t, "remove") \/ AtStep(t, "removeOnly")
                  \/ AtStep(t, "bury") \/ AtStep(t, "poll"))
              => storeLimit' = storeLimit
       /\ now' = now =>
              \A st \in StoreIds : \A ty \in LimitTypes :
                  storeLimit[st][ty] # NoLimiter =>
                      /\ storeLimit'[st][ty] # NoLimiter
                      /\ storeLimit'[st][ty].available
                             <= storeLimit[st][ty].available]_vars

\* An operator that was installed has been removed and buried, nothing else
\* was ever installed, and a limiter is still short of the tokens it took.
C19_Witness ==
    \E o \in DOMAIN ops :
        /\ IsEndStatus(ops[o].status)
        /\ operators[ops[o].region] # o
        /\ opRecords[ops[o].region].op = o
        /\ \A p \in DOMAIN ops \ {o} : ops[p].status = CREATED
        /\ \E st \in StoreIds :
               /\ StepCost(ops[o], st, "add-peer") > 0
               /\ storeLimit[st]["add-peer"] # NoLimiter
               /\ storeLimit[st]["add-peer"].available < LimiterCapacity

(***************************************************************************)
(* Properties of the controller lock.                                      *)
(***************************************************************************)
\* thread t is about to acquire the lock, or is waiting for it
Acquiring(t) == NextItem(t, "Lock") \/ NextItem(t, "RLock")

\* The lock is used as the RWMutex wants it: a thread that acquires does not
\* hold the lock already, a thread that releases holds it in the mode it
\* releases, and a thread whose method has returned holds nothing.
LockDiscipline ==
    \A t \in Threads :
        /\ Acquiring(t) => ~Holds(t)
        /\ NextItem(t, "Unlock") => mutex.writer = t
        /\ NextItem(t, "RUnlock") => t \in mutex.readers
        /\ locking[t].todo = <<>> => ~Holds(t)

\* Thread t can take its next step without waiting for anybody.
Unhindered(t) == ENABLED (Invoke(t) \/ DoUnlock(t) \/ DoRUnlock(t))

\* C18: no thread acquires the controller lock while it holds it, every
\* path out of every public method has released it, and whenever a thread
\* waits for the lock, each thread that holds it can go on without waiting:
\* nobody waits for a lock that is never released.
C18_NoSelfLockNoLeak ==
    /\ LockDiscipline
    /\ \A t \in Threads :
           Acquiring(t) => \A u \in Threads : Holds(u) => u # t /\ Unhindered(u)

\* A thread is in AddWaitingOperator behind its Unlock of line 372 and
\* waits at the Lock of PromoteWaitingOperator, while another thread holds
\* the lock for writing and the third waits for it as well.
C18_Witness ==
    \E t \in Threads :
        /\ locking[t].method = "AddWaitingOperator"
        /\ locking[t].todo # <<>>
        /\ Head(locking[t].todo) = Lock(400)
        /\ mutex.writer \in Threads \ {t}
        /\ \E u \in Threads \ {t, mutex.writer} : Acquiring(u)

(***************************************************************************)
(* Properties of remove.                                                   *)
(***************************************************************************)
\* The entries of the tree whose range holds the start key of the region
\* and whose id is the id of the region.
LocatedSameId(region) ==
    { e \in tree : Contains(e, region.start) /\ e.id = region.id }

\* C21: remove(region) deletes the entry that holds the start key of the
\* region when that entry has the id of the region, and only that entry;
\* when no entry holds the start key, or the entry that does has another
\* id, the entries and the aggregates are what they were.
C21_RemoveOnlySameId ==
    \A region \in ValidRegions :
        LET T == remove(TreeState, region)
        IN  IF LocatedSameId(region) = {}
            THEN T = TreeState
            ELSE /\ Cardinality(LocatedSameId(region)) = 1
                 /\ T.tree = tree \ LocatedSameId(region)

\* The tree has two entries; a remove with the id of the one that holds the
\* start key deletes it and leaves the other, and a remove with another id
\* for the same start key deletes nothing.
C21_Witness ==
    /\ Cardinality(tree) >= 2
    /\ \E r1, r2 \in ValidRegions :
          /\ r1.start = r2.start
          /\ LocatedSameId(r1) # {}
          /\ Cardinality(remove(TreeState, r1).tree) = Cardinality(tree) - 1
          /\ LocatedSameId(r2) = {}
          /\ \E e \in tree : Contains(e, r2.start)
          /\ remove(TreeState, r2) = TreeState

(***************************************************************************)
(* Properties of the removal of a replaced operator.                       *)
(***************************************************************************)
\* Operator b runs on the region of operator a, which it has replaced.
ReplacedBy(a, b) ==
    /\ a # NoOp /\ b # NoOp /\ a # b
    /\ operators[ops[a].region] = b
    /\ ops[b].displaced = a

\* C22: a step of a Dispatch or RemoveOperator that holds operator a, taken
\* while operator b has replaced a in the operators map, leaves b in the
\* map, leaves b as it is, and puts no record of b into opRecords.  (The
\* poll and the lookup of PushOperators begin the dispatch of another heap
\* entry; they are not steps on behalf of a.)
C22_ReplacerStays ==
    [][\A t \in Threads : \A a \in {threads[t].op} : \A b \in DOMAIN ops :
          (/\ threads'[t] # threads[t]
           /\ ~AtStep(t, "poll") /\ ~AtStep(t, "getop")
           /\ ReplacedBy(a, b))
          => /\ operators'[ops[b].region] = b
             /\ ops'[b] = ops[b]
             /\ opRecords'[ops[b].region].op # b]_vars

\* A Dispatch has tried to remove the finished operator it looked up after
\* that operator was replaced: the removal did nothing, the replaced
\* operator is in the records, and its replacer runs.
C22_Witness ==
    \E t \in Threads : \E b \in DOMAIN ops :
        /\ AtStep(t, "fast")
        /\ ReplacedBy(threads[t].op, b)
        /\ ops[b].status = STARTED
        /\ opRecords[ops[b].region].op = threads[t].op

(***************************************************************************)
(* Properties of PromoteWaitingOperator.                                   *)
(***************************************************************************)
\* This step is a call of PromoteWaitingOperator: the promote step of a
\* thread, or the call from outside, which no thread of the model makes.
PromoteStep ==
    \/ \E t \in Threads : AtStep(t, "promote") /\ threads'[t] # threads[t]
    \/ threads' = threads /\ wop' # wop /\ lastCall' = NoCall

\* The operators this step has pulled from the waiting bucket.
Pulled == { o \in DOMAIN ops : InBucket(o) /\ ~InBucket(o)' }

\* The pulled operators this step has installed.
Installed ==
    { o \in Pulled : ops'[o].status = STARTED /\ operators'[ops[o].region] = o }

\* The number of units among the pulled operators whose first operator has
\* description d; the two operators of a merge pair are one unit.
PulledUnits(d) ==
    LET n == Cardinality({ o \in Pulled : Desc(ops[o]) = d })
    IN  IF d = "merge" THEN n \div 2 ELSE n

\* What a call of PromoteWaitingOperator leaves behind: every operator it
\* pulls and does not install has one of the statuses in ended, at most one
\* unit is installed, the pulling goes on until a unit is installed or the
\* bucket is empty, nothing is installed that was not pulled, and
\* wopStatus is decremented once for every unit pulled.
PromoteOutcome(ended) ==
    /\ \A o \in Pulled \ Installed : ops'[o].status \in ended
    /\ \/ Installed = {}
       \/ \E o \in Installed : Installed = {o} /\ ~IsMerge(ops[o])
       \/ \E o, p \in Installed :
              /\ Installed = {o, p} /\ o # p
              /\ IsMerge(ops[o]) /\ IsMerge(ops[p])
    /\ Installed = {} => \A b \in Priorities : wop'[b] = <<>>
    /\ \A r \in RegionIds :
           operators'[r] # operators[r] => operators'[r] \in Installed
    /\ \A d \in OpShapes : wopStatus'[d] = wopStatus[d] - PulledUnits(d)

\* C23 as stated: a call of PromoteWaitingOperator leaves every unit it
\* rejects cancelled, installs at most one unit and ends with it, and
\* decrements wopStatus once for every unit pulled.
C23_RejectedCanceled == [][PromoteStep => PromoteOutcome({CANCELED})]_vars

\* C23, amended: as above, but an operator rejected because it has expired
\* keeps the status EXPIRED that CheckExpired gave it, and is buried so.
C23_PromoteOneUnit == [][PromoteStep => PromoteOutcome({CANCELED, EXPIRED})]_vars

\* An AddWaitingOperator has put two operators into the bucket and has
\* promoted: one of the two was pulled, cancelled and buried, the other was
\* installed, and nothing waits any more.
C23_Witness ==
    /\ lastCall.call = "AddWaitingOperator"
    /\ lastCall.promoted
    /\ lastCall.put = 2
    /\ \A b \in Priorities : wop[b] = <<>>
    /\ \A d \in OpShapes : wopStatus[d] = 0
    /\ \E o, p \in Range(lastCall.ops) :
          /\ ops[o].status = CANCELED
          /\ opRecords[ops[o].region].op = o
          /\ ops[p].status = STARTED
          /\ Running(p)

(***************************************************************************)
(* Properties of PushOperators and the timer heap.                         *)
(***************************************************************************)
\* Thread t takes this step, a poll of PushOperators.
PollStep(t) == AtStep(t, "poll") /\ threads'[t] # threads[t]

\* C24: a poll that finds the heap non-empty with the time of its top entry
\* still in the future puts the entry back and ends PushOperators: the
\* heap, the operators map and the records stay as they are and no region
\* is handed to Dispatch.
C24_EarlyEntryLeftAlone ==
    [][\A t \in Threads :
          (/\ PollStep(t)
           /\ opNotifierQueue # {}
           /\ \A i \in opNotifierQueue : now < i.time)
          => /\ threads'[t].todo = <<>>
             /\ opNotifierQueue' = opNotifierQueue
             /\ operators' = operators
             /\ opRecords' = opRecords]_vars

\* No time has passed since the controller was made, so that every entry
\* ever pushed to the heap is due in the future, and a poll has handed a
\* region with a finished operator to Dispatch.
C24_DispatchedEarly ==
    \E t \in Threads :
        /\ now = 0
        /\ AtStep(t, "getop")
        /\ threads[t].region # 0
        /\ operators[threads[t].region] # NoOp
        /\ ops[operators[threads[t].region]].status = SUCCESS

\* What is left for a PushOperators to do: the entries of the heap, once
\* more those that are due, and twice the operators that wait (a promotion
\* inside Dispatch turns waiting operators into heap entries).
PushWork ==
    Cardinality(opNotifierQueue)
    + Cardinality({ i \in opNotifierQueue : i.time <= now })
    + 2 * Cardinality({ o \in DOMAIN ops : InBucket(o) })

\* C25: every call of PushOperators terminates.  No step of the call adds
\* to the work that is left, and every poll after which the loop goes on
\* has taken from it; the work is a natural number, so the loop goes round
\* finitely often on any heap, unless the clock or other callers keep
\* adding work for ever.
C25_PushOperatorsReturns ==
    [][\A t \in Threads :
          (threads[t].call.call = "PushOperators" /\ threads'[t] # threads[t])
          => /\ PushWork' <= PushWork
             /\ (PollStep(t) /\ threads'[t] # Idle) => PushWork' < PushWork]_vars

\* A PushOperators has returned at an entry that is not yet due, and the
\* entry is one the loop has pushed again: the heap holds it for a time
\* that only a poll after the clock advanced can have given to an operator
\* started before.
C25_Witness ==
    /\ lastCall.call = "PushOperators"
    /\ \E i \in opNotifierQueue :
          /\ now < i.time
          /\ ops[i.op].start = 0
          /\ i.time >= TickSeconds

(***************************************************************************)
(* Heartbeats against the notifier.  Region heartbeats are handled on      *)
(* their own goroutines, so a Dispatch from a heartbeat runs while a       *)
(* PushOperators run started by the notifier is between two of its         *)
(* critical sections.                                                      *)
(***************************************************************************)
\* oc.Dispatch(region, "heartbeat") entered during a PushOperators run
HeartbeatDispatch ==
    /\ threads["hb"] = Idle
    /\ threads["push"] # Idle
    /\ \E r \in RegionIds :
          /\ cluster.regions[r].exists
          /\ GetOperator(r) # NoOp
          /\ threads' = [threads EXCEPT !["hb"] =
                [Idle EXCEPT !.todo = <<"check">>, !.op = GetOperator(r),
                             !.region = r, !.source = DispatchFromHeartBeat]]
    /\ UNCHANGED <<ops, operators, wop, wopStatus, counts, opRecords,
                   opNotifierQueue, histories, fastOperators, storeLimit, cluster,
                   now>>
    /\ sent' = NoMsg
    /\ UNCHANGED <<treeVars, lockVars>>
    /\ lastCall' = NoCall

\* The operators are added by one AddOperator call; the notifier and one
\* heartbeat then run against each other.
ConcurrentNext ==
    \/ ops = <<>> /\ CallAddOperator
    \/ CallPushOperators
    \/ HeartbeatDispatch
    \/ CallPruneHistory
    \/ ThreadStep
    \/ RegionApplies
    \/ Tick

ConcurrentInit == Init /\ cluster.maxWaiting = 1

ConcurrentSpec == ConcurrentInit /\ [][ConcurrentNext]_vars

(***************************************************************************)
(* Properties of the history list.                                         *)
(***************************************************************************)
\* the entries of the list that finished at start or later, in list order
NotBefore(h, start) == SelectSeq(h, LAMBDA e : e.FinishTime >= start)

\* C26: GetHistory(start) returns exactly the entries of the history list
\* whose FinishTime is not before start, whatever the order in which the
\* finished operators were pushed.
C26_GetHistoryExact ==
    \A start \in {0, TickSeconds} :
        GetHistory(histories, start) = NotBefore(histories, start)

\* C26, second half: once PruneHistory has run, no entry older than
\* historyKeepTime is left in the list.
C26_PruneHistoryExact ==
    [][(histories # <<>> /\ histories' = pruneBack(histories, now)
        /\ threads' = threads /\ now' = now)
       => \A i \in 1..Len(histories') :
              now - histories'[i].FinishTime <= historyKeepTime]_vars

\* The history of an operator that finished before the clock advanced has
\* been pushed in front of that of an operator that finished after it, and
\* GetHistory for the later time returns nothing.
C26_Witness ==
    /\ Len(histories) = 2
    /\ histories[1].FinishTime < histories[2].FinishTime
    /\ histories[2].FinishTime >= TickSeconds
    /\ GetHistory(histories, TickSeconds) = <<>>

(***************************************************************************)
(* Properties of the records of finished operators.                        *)
(***************************************************************************)
\* C27: every record in opRecords carries a terminal status, and so does
\* every status GetOperatorStatus returns from the records: an operator is
\* cancelled before it is recorded unless it has ended already.
C27_RecordsTerminal ==
    \A r \in RegionIds :
        /\ opRecords[r] # NoRecord => IsEndStatus(opRecords[r].status)
        /\ (operators[r] = NoOp /\ GetOperatorStatus(r) # NoRecord)
           => IsEndStatus(GetOperatorStatus(r).status)

\* An operator that was running when it was removed has been recorded as
\* CANCELED, and GetOperatorStatus returns that record.
C27_Witness ==
    \E r \in RegionIds :
        /\ operators[r] = NoOp
        /\ GetOperatorStatus(r) # NoRecord
        /\ GetOperatorStatus(r).status = CANCELED
        /\ now > 0
        /\ ops[GetOperatorStatus(r).op].start = now
        /\ ~ops[GetOperatorStatus(r).op].applied

(***************************************************************************)
(* Properties of the counters.                                             *)
(***************************************************************************)
\* The units in the waiting bucket whose first operator has description d;
\* the two operators of a merge pair are one unit.
WaitingUnits(d) ==
    LET n == Cardinality({ o \in DOMAIN ops : InBucket(o) /\ Desc(ops[o]) = d })
    IN  IF d = "merge" THEN n \div 2 ELSE n

\* C28: between two critical sections wopStatus[desc] is the number of
\* units in the waiting bucket whose first operator has description desc,
\* and it is never below zero.
C28_WopStatusCounts ==
    \A d \in OpShapes :
        /\ wopStatus[d] = WaitingUnits(d)
        /\ wopStatus[d] >= 0

\* AddWaitingOperator has put a merge pair, counted once, and has released
\* the lock before it calls PromoteWaitingOperator.
C28_Witness ==
    /\ AtStep("sched", "promote")
    /\ threads["sched"].call.call = "AddWaitingOperator"
    /\ wopStatus["merge"] = 1
    /\ Cardinality({ o \in DOMAIN ops : InBucket(o) /\ IsMerge(ops[o]) }) = 2

\* The operators in the operators map whose scheduler kind is k.
InMapOfKind(k) ==
    { o \in DOMAIN ops : Running(o) /\ SchedulerKind(ops[o]) = k }

\* C29: between two critical sections counts[kind], which OperatorCount
\* returns, is the number of operators in the operators map of that kind,
\* also after an addOperatorLocked that returned false.
C29_CountsMatchMap ==
    \A k \in OpShapes : counts[k] = Cardinality(InMapOfKind(k))

\* AddOperator has returned false and has left its operator in the
\* operators map, STARTED, while OperatorCount returns 0 for its kind.
C29_Witness ==
    /\ lastCall.call = "AddOperator"
    /\ ~lastCall.ok
    /\ \E o \in Range(lastCall.ops) :
          /\ Running(o)
          /\ ops[o].status = STARTED
          /\ counts[SchedulerKind(ops[o])] = 0

(***************************************************************************)
(* Properties of the timer heap's entries.                                 *)
(***************************************************************************)
\* The heap entries pushed for operator o.
EntriesOf(o) == { i \in opNotifierQueue : i.op = o }

\* The operator has a step to execute.
HasStep(o) == ops[o].status = STARTED /\ ops[o].step < LenSteps(ops[o])

\* C30, first half: between two critical sections every operator in the
\* operators map that has a current step has exactly one entry in the timer
\* heap.
C30_OneEntryEach ==
    \A o \in DOMAIN ops :
        (Running(o) /\ HasStep(o)) => Cardinality(EntriesOf(o)) = 1

\* C30: the first half, and: no poll pushes an entry back into the heap with
\* a new time when the entry's operator is no longer the one the operators
\* map holds for the region.
C30_StaleEntryDropped ==
    [][/\ C30_OneEntryEach'
       /\ \A t \in Threads :
             PollStep(t) =>
                 \A j \in opNotifierQueue' :
                     (~Running(j.op) /\ EntriesOf(j.op) # {})
                     => j \in opNotifierQueue]_vars

\* The entry of a replaced operator has been pushed back for a later time
\* while its successor, which has its own entry, is running.
C30_Witness ==
    \E a, b \in DOMAIN ops :
        /\ ReplacedBy(a, b)
        /\ ops[a].status = REPLACED /\ ops[a].create = 0
        /\ HasStep(b)
        /\ EntriesOf(b) # {}
        /\ \E i \in EntriesOf(a) : i.time > TickSeconds

(***************************************************************************)
(* Properties of a promotion that follows an admission.                    *)
(***************************************************************************)
\* The operators AddWaitingOperator has put, when they are one unit and all
\* that the waiting bucket holds; <<>> otherwise.
LoneUnit ==
    LET c == threads["sched"].call
    IN  IF /\ AtStep("sched", "promote")
           /\ c.call = "AddWaitingOperator"
           /\ c.put = Len(c.ops)
           /\ { o \in DOMAIN ops : InBucket(o) } = Range(c.ops)
           /\ \/ Len(c.ops) = 1
              \/ Len(c.ops) = 2 /\ IsMerge(ops[c.ops[1]])
        THEN c.ops ELSE <<>>

\* Nothing but the waiting quota can stand in the way of the unit: its
\* regions exist with the epoch the operators were made for and have no
\* running operator, the operators are not expired, and no store limit is
\* exceeded.
Promotable(unit) ==
    /\ \A i \in DOMAIN unit :
          /\ cluster.regions[ops[unit[i]].region].exists
          /\ Epoch(ops[unit[i]].region) = ops[unit[i]].epoch
          /\ operators[ops[unit[i]].region] = NoOp
          /\ ops[unit[i]].status = CREATED
          /\ now - ops[unit[i]].create <= OperatorExpireTime
    /\ \A ex \in exceedStoreLimitLocked(OC, unit, InfluencedStores(OC, unit)) :
          ~ex.exceed

\* C31: whatever the configured maximum of waiting operators (1 or more), a
\* unit that AddWaitingOperator has put alone into the empty waiting bucket
\* is installed as running by the PromoteWaitingOperator that follows, when
\* nothing but the waiting quota could reject it.
C31_LoneUnitPromoted ==
    [][\A unit \in {LoneUnit} :
          (unit # <<>> /\ Promotable(unit)
           /\ threads'["sched"] # threads["sched"])
          => \A i \in DOMAIN unit :
                /\ operators'[ops[unit[i]].region] = unit[i]
                /\ ops'[unit[i]].status = STARTED]_vars

\* With a maximum of 1 the call has returned 1, its promotion has run, and
\* the operator, put alone for a free region, is CANCELED and recorded while
\* the region has no operator.
C31_Witness ==
    /\ cluster.maxWaiting = 1
    /\ lastCall.call = "AddWaitingOperator"
    /\ lastCall.promoted
    /\ lastCall.added = 1 /\ Len(lastCall.ops) = 1
    /\ Len(ops) = 1
    /\ ops[1].status = CANCELED
    /\ operators[ops[1].region] = NoOp
    /\ opRecords[ops[1].region].op = 1
    /\ wopStatus[Desc(ops[1])] = 0

(***************************************************************************)
(* Properties of concurrent Dispatch calls.                                *)
(***************************************************************************)
\* The entries of the history list pushed for operator o.
HistoryOf(o) == { i \in DOMAIN histories : histories[i].op = o }

\* C32, second half: a Dispatch goes on to PromoteWaitingOperator for a
\* finished operator only when its RemoveOperator took the operator out of
\* the operators map, which one call at most can do for one operator.
C32_PromotedOnce ==
    [][\A t \in Threads :
          (AtStep(t, "remove") /\ ops[threads[t].op].status = SUCCESS
           /\ AtStep(t, "bury")')
          => /\ Running(threads[t].op)
             /\ ~Running(threads[t].op)'
             /\ \A u \in Threads \ {t} :
                   ~(threads[u].op = threads[t].op
                     /\ "promote" \in Range(threads[u].todo))]_vars

\* C32: the step history of an operator is pushed into the history list
\* once, and PromoteWaitingOperator is triggered for it once at most, also
\* when a heartbeat and the timer push dispatch the same region at the same
\* time.
C32_HistoryOnce ==
    [][/\ \A o \in DOMAIN ops' : Cardinality(HistoryOf(o)') <= 1
       /\ \A t \in Threads :
             (AtStep(t, "remove") /\ ops[threads[t].op].status = SUCCESS
              /\ AtStep(t, "bury")')
             => /\ Running(threads[t].op)
                /\ ~Running(threads[t].op)'
                /\ \A u \in Threads \ {t} :
                      ~(threads[u].op = threads[t].op
                        /\ "promote" \in Range(threads[u].todo))]_vars

\* A heartbeat and the timer push have both dispatched the region of one
\* finished operator, and its history is in the list twice.
C32_Witness ==
    \E o \in DOMAIN ops :
        /\ ops[o].status = SUCCESS
        /\ Cardinality(HistoryOf(o)) = 2
        /\ ~Running(o)
        /\ opRecords[ops[o].region].op = o

(***************************************************************************)
(* Properties of the timer push as the only driver.                        *)
(***************************************************************************)
\* PushOperators looks at the operators map only for the regions of the
\* entries it pops, and an entry comes into the heap only with a new
\* operator of its region or by being pushed back: what it can reach.
ReachedByPush(o) ==
    \E i \in opNotifierQueue : ops[i.op].region = ops[o].region

\* C33: with no call in progress, every operator in the operators map is
\* within reach of PushOperators, which, invoked again and again while time
\* advances, takes it out of the map and buries it without any heartbeat:
\* the heap holds an entry for its region.
C33_PushReachesAll ==
    (\A t \in Threads : threads[t] = Idle)
    => \A o \in DOMAIN ops : Running(o) => ReachedByPush(o)

\* What makes the state above final: a step of a PushOperators run that is
\* not in the middle of dispatching the operator's region leaves an operator
\* out of reach in the operators map and out of reach, as long as no
\* operator waits for promotion.
C33_UnreachedStays ==
    [][\A t \in Threads : \A o \in DOMAIN ops :
          (/\ threads[t].call.call = "PushOperators"
           /\ threads'[t] # threads[t]
           /\ threads[t].region # ops[o].region
           /\ Running(o) /\ ~ReachedByPush(o)
           /\ \A w \in DOMAIN ops : ~InBucket(w))
          => (Running(o) /\ ~ReachedByPush(o))']_vars

\* AddOperator has returned false and left its operator in the operators
\* map, STARTED, with an empty heap: no PushOperators run will look at it.
C33_Witness ==
    /\ \A t \in Threads : threads[t] = Idle
    /\ opNotifierQueue = {}
    /\ \E o \in DOMAIN ops :
          /\ Running(o)
          /\ ops[o].status = STARTED
          /\ \E st \in StoreIds : ~HasStore(st)

====
